---- MODULE Spec2Model ----
(***************************************************************************)
(* Model of the integration engine of integra-web: integrate/getSolver and *)
(* the four solvers euler, rk4, rkf45 and adamsBashforth.                  *)
(*                                                                         *)
(* Numbers.  Times and step sizes are JavaScript numbers (binary floating  *)
(* point, round to nearest, ties to even).  The model keeps the rounding   *)
(* and narrows the significand to Prec bits: a time is a natural number,   *)
(* representable when it has at most Prec significant bits, and every sum  *)
(* and difference is rounded by Rnd.  NaN is a value of its own.           *)
(*                                                                         *)
(* State vectors.  A state vector is abstracted to "fin" (every component  *)
(* finite) or "bad" (some component NaN or +-Infinity), which is exactly   *)
(* what the solvers test with y.some(val => !isFinite(val)).  The outcome  *)
(* of evaluating the derivative functions is an input of every step:       *)
(* "fin", "bad" or "throw".                                                *)
(***************************************************************************)
EXTENDS Integers, Sequences, FiniteSets, TLC

\* ---------------------------------------------------------------- bounds
\* significand width of the modelled floating-point numbers
Prec == 3
\* largest end time drawn as an input
MaxT == 16
\* largest maxSteps drawn as an input
MaxStepCap == 4
\* value at which the rejected-step counter of rkf45 saturates
MaxRejected == 3

\* ------------------------------------------------------- number arithmetic
\* NaN, kept apart from every time and step size (these are >= 0)
NaN == 0 - 1

IsNaN(x) == x = NaN

\* spacing of the representable numbers around x >= 0
RECURSIVE Quantum(_)
Quantum(x) == IF x < 2 ^ Prec THEN 1 ELSE 2 * Quantum(x \div 2)

\* round x >= 0 to the nearest representable number, ties to the even significand
Rnd(x) ==
    LET q  == Quantum(x)
        lo == (x \div q) * q
        r  == x - lo
    IN  IF 2 * r < q THEN lo
        ELSE IF 2 * r > q THEN lo + q
        ELSE IF (lo \div q) % 2 = 0 THEN lo ELSE lo + q

IsRep(x) == Rnd(x) = x

\* a + b of two numbers (b may be NaN)
FAdd(a, b) == IF IsNaN(a) \/ IsNaN(b) THEN NaN ELSE Rnd(a + b)

\* a - b for a > b
FSub(a, b) == IF IsNaN(a) \/ IsNaN(b) THEN NaN ELSE Rnd(a - b)

\* a < b and a > b: every comparison with NaN is false
FLt(a, b) == ~IsNaN(a) /\ ~IsNaN(b) /\ a < b
FGt(a, b) == ~IsNaN(a) /\ ~IsNaN(b) /\ a > b
FLe(a, b) == ~IsNaN(a) /\ ~IsNaN(b) /\ a <= b

\* Math.min and Math.max: NaN if either argument is NaN
MathMin(a, b) == IF IsNaN(a) \/ IsNaN(b) THEN NaN ELSE IF a < b THEN a ELSE b
MathMax(a, b) == IF IsNaN(a) \/ IsNaN(b) THEN NaN ELSE IF a > b THEN a ELSE b

\* ------------------------------------------------------------------ inputs
\* NumericalMethod: the four values of the enum
NumericalMethod == {"euler", "rk4", "rkf45", "adams-bashforth"}

\* values of config.method a caller can pass at run time: the enum's values, a
\* name that is no property of SOLVERS, and two names SOLVERS inherits from
\* Object.prototype (a function, and the prototype object itself)
MethodInputs == NumericalMethod \cup {"heun", "toString", "__proto__"}

\* initial times, step sizes and end times drawn as inputs (all representable)
T0Inputs   == {0, 3, 8}
DtInputs   == {x \in 1 .. MaxT : IsRep(x) /\ (x <= 4 \/ x >= 12)}
TEndInputs == {x \in 1 .. MaxT : IsRep(x) /\ x % 2 = 0}

\* (minStep, maxStep) pairs of the rkf45 configuration, minStep > 0
StepRangeInputs == {<<1, 2>>, <<2, 4>>}

\* AdamsBashforthConfig.order
OrderInputs == {2, 3, 4}

\* what one call of derivatives.map(f => f(t, y, params)) can do: return only
\* finite numbers, return some NaN or +-Infinity, or throw
EvalOutcomes == {"fin", "bad", "throw"}

\* outcome of a sequence of evaluations: the first throw ends it; otherwise a
\* non-finite value in any of them is carried on by the arithmetic
Combine(s) ==
    IF \E j \in DOMAIN s : s[j] = "throw" THEN "throw"
    ELSE IF \E j \in DOMAIN s : s[j] = "bad" THEN "bad"
    ELSE "fin"

\* the four stage evaluations k1..k4 of one RK4 step
Rk4Stages == {Combine(s) : s \in [1 .. 4 -> EvalOutcomes]}

\* the six stage evaluations k[0]..k[5] of one RKF45 attempt
Rkf45Stages == {Combine(s) : s \in [1 .. 6 -> EvalOutcomes]}

\* y + h * (combination of derivative values) for a finite y and a step h:
\* non-finite if a derivative value is, or if h is NaN, or by overflow
Advance(k, h, overflow) ==
    IF k = "bad" \/ IsNaN(h) \/ overflow THEN "bad" ELSE "fin"

\* ---------------------------------------------------------------- messages
Msg(text, args) == [text |-> text, args |-> args]

MsgNone      == Msg("", <<>>)
MsgDiverged  == Msg("La integracion divergio (valores infinitos o NaN)", <<>>)
MsgDivergedStartup ==
    Msg("La integracion divergio durante el arranque (valores infinitos o NaN)", <<>>)
MsgMaxSteps  == Msg("Se alcanzo el numero maximo de pasos", <<>>)
MsgCompleted == Msg("Integracion completada", <<>>)
MsgError     == Msg("Error durante la integracion: ${error}", <<>>)
MsgRkf45(steps, rejected) ==
    Msg("Integracion completada. Pasos: ${steps}, Rechazados: ${rejectedSteps}",
        <<steps, rejected>>)
MsgAdams(order, steps) ==
    Msg("Adams-Bashforth (orden ${order}) completado. Pasos: ${steps}", <<order, steps>>)

\* a SimulationResult
SimulationResult(tv, yv, ok, msg, n) ==
    [t |-> tv, y |-> yv, success |-> ok, message |-> msg, steps |-> n]

NoResult == SimulationResult(<<>>, <<>>, FALSE, MsgNone, 0)

\* ------------------------------------------------------------------- state
VARIABLES
    pc,             \* where the call is: "idle", inside a solver, or how it ended
    cfg,            \* the SolverConfig passed to integrate
    t0,             \* the initial time passed to integrate
    t,              \* current time of the running solver
    y,              \* current state vector of the running solver
    steps,          \* accepted-step count
    tValues,        \* recorded times
    yValues,        \* recorded state vectors
    dt,             \* rkf45: current step size
    rejectedSteps,  \* rkf45: rejected-step count
    fHistory,       \* adamsBashforth: derivative history, oldest first
    i,              \* adamsBashforth: index of the startup loop
    accepted,       \* rkf45: step size and error estimate of the step accepted last
    thrown,         \* the error that left integrate, if any
    result,         \* the value integrate returned
    derivatives,    \* the derivative functions, where a run computes with numbers
    call,           \* the compiler function called and its arguments
    ret,            \* what that call returned, or the error it threw
    systemState,    \* App: the equation definition, initial values and time,
                    \* the solver's end time, the result, the error
    globalError,    \* CustomEquationEditor: the error it shows
    console,        \* the messages written with console.error
    attempt,        \* how the compile of the last select or apply ended
    nullclines      \* calculateNullclines: its arguments, loop indices, grids, curves

\* the variables of the integration engine
solverVars == <<pc, cfg, t0, t, y, steps, tValues, yValues, dt, rejectedSteps,
                fHistory, i, accepted, thrown, result>>

\* the variables of the expression compiler
compilerVars == <<call, ret>>

\* the variables of the application
appVars == <<systemState, globalError, console, attempt>>

\* the variables of the nullcline computation
plotVars == <<nullclines>>

\* the variables the engine's abstract runs leave alone
otherVars == <<derivatives, compilerVars, appVars, plotVars>>

vars == <<solverVars, otherVars>>

\* no step accepted yet
NoStep == [dt |-> 0, error |-> "none"]

\* no compiler function called yet
NoCall == [fn |-> "none"]
NoReturn == [kind |-> "none"]

NoConfig ==
    [method |-> "", dt |-> 0, tEnd |-> 0, maxSteps |-> 0,
     minStep |-> 0, maxStep |-> 0, order |-> 0]

\* calculateNullclines before it is called
NoNullclines ==
    [pc |-> "idle", equation |-> "none", xRange |-> <<0, 0>>, yRange |-> <<0, 0>>,
     resolution |-> 0, i |-> 0, j |-> 0, dxGrid |-> << >>, dyGrid |-> << >>,
     xNullcline |-> <<>>, yNullcline |-> <<>>, tested |-> <<>>]

Init ==
    /\ pc = "idle"
    /\ cfg = NoConfig
    /\ t0 = 0
    /\ t = 0
    /\ y = "fin"
    /\ steps = 0
    /\ tValues = <<>>
    /\ yValues = <<>>
    /\ dt = 0
    /\ rejectedSteps = 0
    /\ fHistory = <<>>
    /\ i = 0
    /\ accepted = NoStep
    /\ thrown = "none"
    /\ result = NoResult
    /\ derivatives = "none"
    /\ call = NoCall
    /\ ret = NoReturn
    /\ systemState = [equation |-> [kind |-> "null"], initialValues |-> <<1, 1, 1>>,
                      time |-> 0, tEnd |-> 50,
                      result |-> [kind |-> "null"], error |-> "null"]
    /\ globalError = "null"
    /\ console = {}
    /\ attempt = "none"
    /\ nullclines = NoNullclines

\* the call has ended: a value was returned or an error left integrate
Ended == pc \in {"returned", "returnedOther", "threw"}

\* "return { t: tValues, y: yValues, success, message, steps }"
Return(tv, yv, ok, msg, n) ==
    /\ pc' = "returned"
    /\ result' = SimulationResult(tv, yv, ok, msg, n)

\* the while condition shared by the four solvers
Running == FLt(t, cfg.tEnd) /\ steps < cfg.maxSteps

\* --------------------------------------------------------------- integrate
\* SOLVERS[method]: an own property for the four enum values; for any other
\* name the lookup goes on to Object.prototype
SOLVERS(method) ==
    IF method \in NumericalMethod THEN method
    ELSE IF method = "toString" THEN "Object.prototype.toString"
    ELSE IF method = "__proto__" THEN "Object.prototype"
    ELSE "undefined"

\* getSolver: throws when the looked-up value is falsy
getSolver(method) ==
    IF SOLVERS(method) = "undefined" THEN "throw" ELSE SOLVERS(method)

\* AdamsBashforthConfig.order, "config.order || 4" (0 stands for an absent order)
Order == IF cfg.order = 0 THEN 4 ELSE cfg.order

\* the declarations every solver starts with: the recorded arrays hold the
\* initial point, t = t0, y = y0.slice(), steps = 0
Prologue(time0) ==
    /\ t0' = time0
    /\ t' = time0
    /\ y' = "fin"
    /\ steps' = 0
    /\ tValues' = <<time0>>
    /\ yValues' = <<"fin">>
    /\ rejectedSteps' = 0
    /\ i' = 0
    /\ accepted' = NoStep

\* integrate with a method that is no own property of SOLVERS
IntegrateUnsupported ==
    /\ pc = "idle"
    /\ \E m \in MethodInputs \ NumericalMethod, time0 \in T0Inputs :
        /\ cfg' = [NoConfig EXCEPT !.method = m]
        /\ t0' = time0
        /\ IF getSolver(m) = "throw"
           THEN /\ pc' = "threw"
                /\ thrown' = "Error: Metodo numerico no soportado"
           ELSE IF getSolver(m) = "Object.prototype"
           THEN /\ pc' = "threw"
                /\ thrown' = "TypeError: solver is not a function"
           ELSE /\ pc' = "returnedOther"
                /\ thrown' = "none"
    /\ UNCHANGED <<t, y, steps, tValues, yValues, dt, rejectedSteps, fHistory, i,
                   accepted, result>>

\* integrate with method euler or rk4: dispatch and the solver's declarations
IntegrateFixedStep ==
    /\ pc = "idle"
    /\ \E m \in {"euler", "rk4"}, time0 \in T0Inputs, h \in DtInputs,
          tEnd \in TEndInputs, cap \in 1 .. MaxStepCap :
        /\ cfg' = [NoConfig EXCEPT !.method = m, !.dt = h, !.tEnd = tEnd,
                                   !.maxSteps = cap]
        /\ pc' = getSolver(m)
        /\ Prologue(time0)
    /\ UNCHANGED <<dt, fHistory, thrown, result>>

\* integrate with method rkf45: "let dt = config.dt || 0.01"
IntegrateRkf45 ==
    /\ pc = "idle"
    /\ \E time0 \in T0Inputs, h \in DtInputs, tEnd \in TEndInputs,
          cap \in 1 .. MaxStepCap, range \in StepRangeInputs :
        /\ cfg' = [NoConfig EXCEPT !.method = "rkf45", !.dt = h, !.tEnd = tEnd,
                                   !.maxSteps = cap, !.minStep = range[1],
                                   !.maxStep = range[2]]
        /\ pc' = getSolver("rkf45")
        /\ dt' = h
        /\ Prologue(time0)
    /\ UNCHANGED <<fHistory, thrown, result>>

\* integrate with method adams-bashforth: the derivative at the initial point
\* is evaluated before the try block is entered
IntegrateAdams ==
    /\ pc = "idle"
    /\ \E time0 \in T0Inputs, h \in DtInputs, tEnd \in TEndInputs,
          cap \in 1 .. MaxStepCap, ord \in {0} \cup OrderInputs,
          f0 \in EvalOutcomes :
        /\ cfg' = [NoConfig EXCEPT !.method = "adams-bashforth", !.dt = h,
                                   !.tEnd = tEnd, !.maxSteps = cap, !.order = ord]
        /\ Prologue(time0)
        /\ IF f0 = "throw"
           THEN /\ pc' = "threw"
                /\ thrown' = "derivative"
                /\ fHistory' = <<>>
           ELSE /\ pc' = getSolver("adams-bashforth")
                /\ thrown' = "none"
                /\ fHistory' = <<f0>>
    /\ UNCHANGED <<dt, result>>

\* ------------------------------------------------------------------- euler
\* a step that would count the diverged step it does not record
EulerStepCountingDivergedStep ==
    /\ pc = "euler"
    /\ Running
    /\ \E dydt \in EvalOutcomes, overflow \in BOOLEAN :
        LET yNew == Advance(dydt, cfg.dt, overflow) IN
        IF dydt = "throw"
        THEN /\ Return(tValues, yValues, FALSE, MsgError, steps)
             /\ UNCHANGED <<t, y, steps, tValues, yValues>>
        ELSE IF yNew = "bad"
        THEN /\ Return(tValues, yValues, FALSE, MsgDiverged, steps + 1)
             /\ steps' = steps + 1
             /\ UNCHANGED <<t, y, tValues, yValues>>
        ELSE /\ t' = FAdd(t, cfg.dt)
             /\ y' = yNew
             /\ steps' = steps + 1
             /\ tValues' = Append(tValues, FAdd(t, cfg.dt))
             /\ yValues' = Append(yValues, yNew)
             /\ UNCHANGED <<pc, result>>
    /\ UNCHANGED <<cfg, t0, dt, rejectedSteps, fHistory, i, accepted, thrown>>

\* one iteration of euler's while loop
EulerStep ==
    /\ pc = "euler"
    /\ Running
    /\ \E dydt \in EvalOutcomes, overflow \in BOOLEAN :
        LET yNew == Advance(dydt, cfg.dt, overflow) IN
        IF dydt = "throw"
        THEN /\ Return(tValues, yValues, FALSE, MsgError, steps)
             /\ UNCHANGED <<t, y, steps, tValues, yValues>>
        ELSE IF yNew = "bad"
        THEN /\ Return(tValues, yValues, FALSE, MsgDiverged, steps)
             /\ UNCHANGED <<t, y, steps, tValues, yValues>>
        ELSE /\ t' = FAdd(t, cfg.dt)
             /\ y' = yNew
             /\ steps' = steps + 1
             /\ tValues' = Append(tValues, FAdd(t, cfg.dt))
             /\ yValues' = Append(yValues, yNew)
             /\ UNCHANGED <<pc, result>>
    /\ UNCHANGED <<cfg, t0, dt, rejectedSteps, fHistory, i, accepted, thrown>>

\* the return after euler's loop
EulerReturn ==
    /\ pc = "euler"
    /\ ~Running
    /\ Return(tValues, yValues, TRUE,
              IF steps >= cfg.maxSteps THEN MsgMaxSteps ELSE MsgCompleted, steps)
    /\ UNCHANGED <<cfg, t0, t, y, steps, tValues, yValues, dt, rejectedSteps,
                   fHistory, i, accepted, thrown>>

\* --------------------------------------------------------------------- rk4
\* one iteration of rk4's while loop
Rk4Step ==
    /\ pc = "rk4"
    /\ Running
    /\ \E k \in Rk4Stages, overflow \in BOOLEAN :
        LET yNew == Advance(k, cfg.dt, overflow) IN
        IF k = "throw"
        THEN /\ Return(tValues, yValues, FALSE, MsgError, steps)
             /\ UNCHANGED <<t, y, steps, tValues, yValues>>
        ELSE IF yNew = "bad"
        THEN /\ Return(tValues, yValues, FALSE, MsgDiverged, steps)
             /\ UNCHANGED <<t, y, steps, tValues, yValues>>
        ELSE /\ t' = FAdd(t, cfg.dt)
             /\ y' = yNew
             /\ steps' = steps + 1
             /\ tValues' = Append(tValues, FAdd(t, cfg.dt))
             /\ yValues' = Append(yValues, yNew)
             /\ UNCHANGED <<pc, result>>
    /\ UNCHANGED <<cfg, t0, dt, rejectedSteps, fHistory, i, accepted, thrown>>

\* the return after rk4's loop
Rk4Return ==
    /\ pc = "rk4"
    /\ ~Running
    /\ Return(tValues, yValues, TRUE,
              IF steps >= cfg.maxSteps THEN MsgMaxSteps ELSE MsgCompleted, steps)
    /\ UNCHANGED <<cfg, t0, t, y, steps, tValues, yValues, dt, rejectedSteps,
                   fHistory, i, accepted, thrown>>

\* ------------------------------------------------------------------- rkf45
\* the error estimate, as a class: "zero", "le" (0 < error <= tolerance),
\* "gt" (tolerance < error < Infinity), "inf" or "nan".
\* error = max_i |y5_i - y4_i| / max(|y_i|, |y5_i|, 1e-10): a non-finite y5_i
\* makes its quotient NaN (Infinity / Infinity, or NaN), and Math.max keeps a
\* NaN; a finite y5 with an overflowed y4 gives Infinity; e is the class of
\* the quotient when both are finite
ErrorEstimate(y4, y5, e) ==
    IF y5 = "bad" THEN "nan" ELSE IF y4 = "bad" THEN "inf" ELSE e

\* "error <= tolerance"
WithinTolerance(error) == error \in {"zero", "le"}

\* the order-5 result and the error estimate one attempt can produce from the
\* stage values k with step h
Rkf45Estimates(k, h) ==
    { [y5 |-> Advance(k, h, o5),
       error |-> ErrorEstimate(Advance(k, h, o4), Advance(k, h, o5), e)] :
         o4 \in BOOLEAN, o5 \in BOOLEAN, e \in {"zero", "le", "gt"} }

\* the representable numbers a new step size is drawn from
StepGrid == {x \in 0 .. MaxT : IsRep(x)}

\* newDt: dt * 2 when the error is exactly zero, otherwise
\* safetyFactor * dt * (tolerance / error)^0.2 with safetyFactor = 0.9, whose
\* value lies at or above 0.9 dt when error <= tolerance, below it when
\* error > tolerance, is 0 for an infinite error and NaN for a NaN error
StepUpdate(error, h) ==
    IF error = "zero" THEN {Rnd(2 * h)}
    ELSE IF error = "le" THEN {d \in StepGrid : 10 * d >= 9 * h}
    ELSE IF error = "gt" THEN {d \in StepGrid : 10 * d < 9 * h}
    ELSE IF error = "inf" THEN {0}
    ELSE {NaN}

\* "dt = Math.max(minStep, Math.min(maxStep, newDt))"
ClampStep(newDt) == MathMax(cfg.minStep, MathMin(cfg.maxStep, newDt))

\* "if (t + dt > tEnd) dt = tEnd - t"
ClipStep(h) == IF FGt(FAdd(t, h), cfg.tEnd) THEN FSub(cfg.tEnd, t) ELSE h

\* StepAccepted with the step compared to maxStep instead of minStep
StepAcceptedBelowMaxStep(error, h) == WithinTolerance(error) \/ FLe(h, cfg.maxStep)

\* "if (error <= tolerance || dt <= minStep)"
StepAccepted(error, h) == WithinTolerance(error) \/ FLe(h, cfg.minStep)

\* "rejectedSteps++": a number, so the count stops growing once adding 1 no
\* longer changes it
CountRejected(n) == IF n < MaxRejected THEN n + 1 ELSE n

\* an attempt whose rejection would advance the time all the same
Rkf45AttemptAdvancingOnReject ==
    /\ pc = "rkf45"
    /\ Running
    /\ LET h == ClipStep(dt) IN
       \E k \in Rkf45Stages :
        IF k = "throw"
        THEN /\ Return(tValues, yValues, FALSE, MsgError, steps)
             /\ dt' = h
             /\ UNCHANGED <<t, y, steps, tValues, yValues, rejectedSteps, accepted>>
        ELSE \E est \in Rkf45Estimates(k, h) :
            IF StepAccepted(est.error, h)
            THEN /\ t' = FAdd(t, h)
                 /\ y' = est.y5
                 /\ steps' = steps + 1
                 /\ tValues' = Append(tValues, FAdd(t, h))
                 /\ yValues' = Append(yValues, est.y5)
                 /\ accepted' = [dt |-> h, error |-> est.error]
                 /\ UNCHANGED rejectedSteps
                 /\ IF est.y5 = "bad"
                    THEN /\ Return(Append(tValues, FAdd(t, h)),
                                   Append(yValues, est.y5),
                                   FALSE, MsgDiverged, steps + 1)
                         /\ dt' = h
                    ELSE /\ \E newDt \in StepUpdate(est.error, h) :
                              dt' = ClampStep(newDt)
                         /\ UNCHANGED <<pc, result>>
            ELSE /\ rejectedSteps' = CountRejected(rejectedSteps)
                 /\ \E newDt \in StepUpdate(est.error, h) : dt' = ClampStep(newDt)
                 /\ t' = FAdd(t, h)
                 /\ UNCHANGED <<pc, result, y, steps, tValues, yValues, accepted>>
    /\ UNCHANGED <<cfg, t0, fHistory, i, thrown>>

\* one iteration of rkf45's while loop: one attempted step
Rkf45Attempt ==
    /\ pc = "rkf45"
    /\ Running
    /\ LET h == ClipStep(dt) IN
       \E k \in Rkf45Stages :
        IF k = "throw"
        THEN /\ Return(tValues, yValues, FALSE, MsgError, steps)
             /\ dt' = h
             /\ UNCHANGED <<t, y, steps, tValues, yValues, rejectedSteps, accepted>>
        ELSE \E est \in Rkf45Estimates(k, h) :
            IF StepAccepted(est.error, h)
            THEN /\ t' = FAdd(t, h)
                 /\ y' = est.y5
                 /\ steps' = steps + 1
                 /\ tValues' = Append(tValues, FAdd(t, h))
                 /\ yValues' = Append(yValues, est.y5)
                 /\ accepted' = [dt |-> h, error |-> est.error]
                 /\ UNCHANGED rejectedSteps
                 /\ IF est.y5 = "bad"
                    THEN /\ Return(Append(tValues, FAdd(t, h)),
                                   Append(yValues, est.y5),
                                   FALSE, MsgDiverged, steps + 1)
                         /\ dt' = h
                    ELSE /\ \E newDt \in StepUpdate(est.error, h) :
                              dt' = ClampStep(newDt)
                         /\ UNCHANGED <<pc, result>>
            ELSE /\ rejectedSteps' = CountRejected(rejectedSteps)
                 /\ \E newDt \in StepUpdate(est.error, h) : dt' = ClampStep(newDt)
                 /\ UNCHANGED <<pc, result, t, y, steps, tValues, yValues, accepted>>
    /\ UNCHANGED <<cfg, t0, fHistory, i, thrown>>

\* the return after rkf45's loop
Rkf45Return ==
    /\ pc = "rkf45"
    /\ ~Running
    /\ Return(tValues, yValues, TRUE, MsgRkf45(steps, rejectedSteps), steps)
    /\ UNCHANGED <<cfg, t0, t, y, steps, tValues, yValues, dt, rejectedSteps,
                   fHistory, i, accepted, thrown>>

\* ---------------------------------------------------------- adamsBashforth
\* the derivative values a main-phase step reads: fHistory[length - 1 - j]
\* for j = 0 .. order - 1, most recent first (1-based here)
HistoryRead(j) == fHistory[Len(fHistory) - j]

\* reading an index below the start of the history yields undefined, and
\* indexing undefined throws a TypeError
HistoryReadsDefined == \A j \in 0 .. Order - 1 : Len(fHistory) - j >= 1

\* the weighted sum of the values read
HistorySum ==
    IF \E j \in 0 .. Order - 1 : HistoryRead(j) = "bad" THEN "bad" ELSE "fin"

\* a push that would never discard the oldest entry
PushWithoutShift(h, fNew) == Append(h, fNew)

\* "fHistory.push(fNew); if (fHistory.length > order) fHistory.shift()"
PushShift(h, fNew) ==
    IF Len(h) + 1 > Order THEN Tail(Append(h, fNew)) ELSE Append(h, fNew)

\* one iteration of the startup loop: an RK4 step of size dt, then the
\* derivative at the new point, then the finiteness test
AdamsStartupStep ==
    /\ pc = "adams-bashforth"
    /\ i < Order - 1
    /\ Running
    /\ \E k \in Rk4Stages, overflow \in BOOLEAN, fNew \in EvalOutcomes :
        LET yNew == Advance(k, cfg.dt, overflow)
            tNew == FAdd(t, cfg.dt)
        IN
        IF k = "throw"
        THEN /\ Return(tValues, yValues, FALSE, MsgError, steps)
             /\ UNCHANGED <<t, y, steps, tValues, yValues, fHistory, i>>
        ELSE /\ t' = tNew
             /\ y' = yNew
             /\ steps' = steps + 1
             /\ tValues' = Append(tValues, tNew)
             /\ yValues' = Append(yValues, yNew)
             /\ IF fNew = "throw"
                THEN /\ Return(Append(tValues, tNew), Append(yValues, yNew),
                               FALSE, MsgError, steps + 1)
                     /\ UNCHANGED <<fHistory, i>>
                ELSE /\ fHistory' = Append(fHistory, fNew)
                     /\ IF yNew = "bad"
                        THEN /\ Return(Append(tValues, tNew), Append(yValues, yNew),
                                       FALSE, MsgDivergedStartup, steps + 1)
                             /\ UNCHANGED i
                        ELSE /\ i' = i + 1
                             /\ UNCHANGED <<pc, result>>
    /\ UNCHANGED <<cfg, t0, dt, rejectedSteps, accepted, thrown>>

\* one iteration of the main loop, entered when the startup loop has ended
AdamsMainStep ==
    /\ pc = "adams-bashforth"
    /\ ~(i < Order - 1 /\ Running)
    /\ Running
    /\ \E overflow \in BOOLEAN, fNew \in EvalOutcomes :
        LET h    == ClipStep(cfg.dt)
            yNew == Advance(HistorySum, h, overflow)
            tNew == FAdd(t, h)
        IN
        IF ~HistoryReadsDefined
        THEN /\ Return(tValues, yValues, FALSE, MsgError, steps)
             /\ UNCHANGED <<t, y, steps, tValues, yValues, fHistory>>
        ELSE /\ t' = tNew
             /\ y' = yNew
             /\ steps' = steps + 1
             /\ tValues' = Append(tValues, tNew)
             /\ yValues' = Append(yValues, yNew)
             /\ IF fNew = "throw"
                THEN /\ Return(Append(tValues, tNew), Append(yValues, yNew),
                               FALSE, MsgError, steps + 1)
                     /\ UNCHANGED fHistory
                ELSE /\ fHistory' = PushShift(fHistory, fNew)
                     /\ IF yNew = "bad"
                        THEN Return(Append(tValues, tNew), Append(yValues, yNew),
                                    FALSE, MsgDiverged, steps + 1)
                        ELSE UNCHANGED <<pc, result>>
    /\ UNCHANGED <<cfg, t0, dt, rejectedSteps, i, accepted, thrown>>

\* the return after the main loop
AdamsReturn ==
    /\ pc = "adams-bashforth"
    /\ ~(i < Order - 1 /\ Running)
    /\ ~Running
    /\ Return(tValues, yValues, TRUE, MsgAdams(Order, steps), steps)
    /\ UNCHANGED <<cfg, t0, t, y, steps, tValues, yValues, dt, rejectedSteps,
                   fHistory, i, accepted, thrown>>

\* ------------------------------------------------------------ specification
Next ==
    \/ IntegrateUnsupported /\ UNCHANGED otherVars
    \/ IntegrateFixedStep /\ UNCHANGED otherVars
    \/ IntegrateRkf45 /\ UNCHANGED otherVars
    \/ IntegrateAdams /\ UNCHANGED otherVars
    \/ EulerStep /\ UNCHANGED otherVars
    \/ EulerReturn /\ UNCHANGED otherVars
    \/ Rk4Step /\ UNCHANGED otherVars
    \/ Rk4Return /\ UNCHANGED otherVars
    \/ Rkf45Attempt /\ UNCHANGED otherVars
    \/ Rkf45Return /\ UNCHANGED otherVars
    \/ AdamsStartupStep /\ UNCHANGED otherVars
    \/ AdamsMainStep /\ UNCHANGED otherVars
    \/ AdamsReturn /\ UNCHANGED otherVars

Spec == Init /\ [][Next]_vars

\* ------------------------------------------- adamsBashforth with numbers
\* The startup phase of adamsBashforth and one step of rk4, computed on a
\* scalar system with numbers instead of the "fin"/"bad" abstraction.  The
\* inputs are integers with dt a multiple of 6, so dt / 2, dt / 6 and every
\* product and sum below are integers far below 2^53 and the floating-point
\* operations of the code are exact.  NaN stands for every non-finite value.

\* a + b, a * b and a / b of JavaScript numbers
Plus(a, b) == IF IsNaN(a) \/ IsNaN(b) THEN NaN ELSE a + b
Times(a, b) == IF IsNaN(a) \/ IsNaN(b) THEN NaN ELSE a * b
Over(a, b) == IF IsNaN(a) \/ IsNaN(b) THEN NaN ELSE a \div b

\* time from which the derivative function "pole" is not finite
PoleAt == 12

\* the derivative functions drawn as inputs, by name
DerivativeInputs == {"one", "time", "state", "pole"}

\* deriv(t, y, params) for the derivative function named f
Deriv(f, time, state) ==
    CASE f = "one"   -> 1
      [] f = "time"  -> time
      [] f = "state" -> state
      [] f = "pole"  -> IF IsNaN(time) \/ time >= PoleAt THEN NaN ELSE 1

StartupY0Inputs == {0, 1}
StartupT0Inputs == {0, 6}
StartupDtInputs == {6, 12}
StartupTEndInputs == {6, 12, 18, 24, 36, 48}

\* the new state of one rk4 step: k1..k4 and
\* "yi + (dt / 6.0) * (k1[i] + 2 * k2[i] + 2 * k3[i] + k4[i])"
Rk4NewState(f, time, state, h) ==
    LET k1 == Deriv(f, time, state)
        y2 == Plus(state, Times(Over(h, 2), k1))
        k2 == Deriv(f, Plus(time, Over(h, 2)), y2)
        y3 == Plus(state, Times(Over(h, 2), k2))
        k3 == Deriv(f, Plus(time, Over(h, 2)), y3)
        y4 == Plus(state, Times(h, k3))
        k4 == Deriv(f, Plus(time, h), y4)
    IN  Plus(state, Times(Over(h, 6),
             Plus(Plus(Plus(k1, Times(2, k2)), Times(2, k3)), k4)))

\* the new state of one startup step of adamsBashforth, stage weights swapped
StartupNewStateWeightsSwapped(f, time, state, h) ==
    LET k1 == Deriv(f, time, state)
        y1 == Plus(state, Times(Over(h, 2), k1))
        k2 == Deriv(f, Plus(time, Over(h, 2)), y1)
        y2 == Plus(state, Times(Over(h, 2), k2))
        k3 == Deriv(f, Plus(time, Over(h, 2)), y2)
        y3 == Plus(state, Times(h, k3))
        k4 == Deriv(f, Plus(time, h), y3)
    IN  Plus(state, Times(Over(h, 6),
             Plus(Plus(Plus(Times(2, k1), k2), Times(2, k3)), k4)))

\* the new state of one startup step of adamsBashforth: k1..k4 and
\* "yi + dt / 6 * (k1[idx] + 2 * k2[idx] + 2 * k3[idx] + k4[idx])"
StartupNewState(f, time, state, h) ==
    LET k1 == Deriv(f, time, state)
        y1 == Plus(state, Times(Over(h, 2), k1))
        k2 == Deriv(f, Plus(time, Over(h, 2)), y1)
        y2 == Plus(state, Times(Over(h, 2), k2))
        k3 == Deriv(f, Plus(time, Over(h, 2)), y2)
        y3 == Plus(state, Times(h, k3))
        k4 == Deriv(f, Plus(time, h), y3)
    IN  Plus(state, Times(Over(h, 6),
             Plus(Plus(Plus(k1, Times(2, k2)), Times(2, k3)), k4)))

\* the condition of the startup loop:
\* "i < startupSteps && t < tEnd && steps < maxSteps"
StartupContinues == i < Order - 1 /\ Running

\* adamsBashforth is called: its declarations, and the derivative at the
\* initial point pushed as the first history entry
StartupCall ==
    /\ pc = "idle"
    /\ \E f \in DerivativeInputs, y0 \in StartupY0Inputs, time0 \in StartupT0Inputs,
          h \in StartupDtInputs, tEnd \in StartupTEndInputs,
          cap \in 1 .. MaxStepCap, order \in {0} \cup OrderInputs :
        /\ derivatives' = f
        /\ cfg' = [NoConfig EXCEPT !.method = "adams-bashforth", !.dt = h,
                                   !.tEnd = tEnd, !.maxSteps = cap,
                                   !.order = order]
        /\ t0' = time0
        /\ t' = time0
        /\ y' = y0
        /\ steps' = 0
        /\ tValues' = <<time0>>
        /\ yValues' = <<y0>>
        /\ fHistory' = <<Deriv(f, time0, y0)>>
        /\ i' = 0
        /\ pc' = "startup"
    /\ UNCHANGED <<dt, rejectedSteps, accepted, thrown, result>>

\* one iteration of the startup loop
StartupStep ==
    /\ pc = "startup"
    /\ StartupContinues
    /\ LET yNew == StartupNewState(derivatives, t, y, cfg.dt)
           tNew == Plus(t, cfg.dt)
       IN  /\ t' = tNew
           /\ y' = yNew
           /\ steps' = steps + 1
           /\ tValues' = Append(tValues, tNew)
           /\ yValues' = Append(yValues, yNew)
           /\ fHistory' = Append(fHistory, Deriv(derivatives, tNew, yNew))
           /\ IF IsNaN(yNew)
              THEN /\ Return(Append(tValues, tNew), Append(yValues, yNew),
                             FALSE, MsgDivergedStartup, steps + 1)
                   /\ UNCHANGED i
              ELSE /\ i' = i + 1
                   /\ UNCHANGED <<pc, result>>
    /\ UNCHANGED <<cfg, t0, dt, rejectedSteps, accepted, thrown, derivatives>>

\* the startup loop ends and the main phase is entered
StartupEnd ==
    /\ pc = "startup"
    /\ ~StartupContinues
    /\ pc' = "main"
    /\ UNCHANGED <<cfg, t0, t, y, steps, tValues, yValues, dt, rejectedSteps,
                   fHistory, i, accepted, thrown, result, derivatives>>

StartupNext ==
    \/ StartupCall /\ UNCHANGED <<compilerVars, appVars, plotVars>>
    \/ StartupStep /\ UNCHANGED <<compilerVars, appVars, plotVars>>
    \/ StartupEnd /\ UNCHANGED <<compilerVars, appVars, plotVars>>

\* adamsBashforth up to its main phase, on numbers
StartupSpec == Init /\ [][StartupNext]_vars

\* -------------------------------------------------------------------- text
\* A string is the sequence of its characters.
LowerCase ==
    {"a", "b", "c", "d", "e", "f", "g", "h", "i", "j", "k", "l", "m",
     "n", "o", "p", "q", "r", "s", "t", "u", "v", "w", "x", "y", "z"}
UpperCase ==
    {"A", "B", "C", "D", "E", "F", "G", "H", "I", "J", "K", "L", "M",
     "N", "O", "P", "Q", "R", "S", "T", "U", "V", "W", "X", "Y", "Z"}
DigitChars == <<"0", "1", "2", "3", "4", "5", "6", "7", "8", "9">>

\* the character classes of the regular expressions: \d, [a-zA-Z_],
\* [a-zA-Z0-9_] (which is also \w) and \s
IsDigit(c) == \E d \in DOMAIN DigitChars : DigitChars[d] = c
IsIdentStart(c) == c \in LowerCase \/ c \in UpperCase \/ c = "_"
IsWordChar(c) == IsIdentStart(c) \/ IsDigit(c)
IsSpace(c) == c = " "

\* the character at position p, "" outside the string
At(s, p) == IF p \in DOMAIN s THEN s[p] ELSE ""

\* s.substring(p - 1, q): the characters at positions p .. q
Slice(s, p, q) == IF q < p THEN <<>> ELSE SubSeq(s, p, q)

\* w occurs in s at position p
OccursAt(s, p, w) == p + Len(w) - 1 <= Len(s) /\ Slice(s, p, p + Len(w) - 1) = w

\* \b before position p: exactly one of the characters around it is a word
\* character
WordBoundary(s, p) == IsWordChar(At(s, p - 1)) # IsWordChar(At(s, p))

\* position after the longest run from p of characters of a class
RECURSIVE DigitsEnd(_, _)
DigitsEnd(s, p) == IF IsDigit(At(s, p)) THEN DigitsEnd(s, p + 1) ELSE p
RECURSIVE WordEnd(_, _)
WordEnd(s, p) == IF IsWordChar(At(s, p)) THEN WordEnd(s, p + 1) ELSE p
RECURSIVE SpacesEnd(_, _)
SpacesEnd(s, p) == IF IsSpace(At(s, p)) THEN SpacesEnd(s, p + 1) ELSE p

\* [a-zA-Z_][a-zA-Z0-9_]* at p: the position after the match, 0 without one
IdentifierEnd(s, p) == IF IsIdentStart(At(s, p)) THEN WordEnd(s, p + 1) ELSE 0

\* \d+\.?\d* at p: the position after the match, 0 without one
NumeralEnd(s, p) ==
    IF ~IsDigit(At(s, p)) THEN 0
    ELSE LET q == DigitsEnd(s, p)
         IN  IF At(s, q) = "." THEN DigitsEnd(s, q + 1) ELSE q

\* s.trim()
RECURSIVE TrimStart(_)
TrimStart(s) == IF s # <<>> /\ IsSpace(Head(s)) THEN TrimStart(Tail(s)) ELSE s
RECURSIVE TrimEnd(_)
TrimEnd(s) ==
    IF s # <<>> /\ IsSpace(s[Len(s)]) THEN TrimEnd(Slice(s, 1, Len(s) - 1)) ELSE s
Trim(s) == TrimEnd(TrimStart(s))

\* s.replace(/\bw\b/g, r) from position p on, for a word w of word characters
RECURSIVE ReplaceWordFrom(_, _, _, _)
ReplaceWordFrom(s, p, w, r) ==
    IF p > Len(s) THEN <<>>
    ELSE IF /\ OccursAt(s, p, w)
            /\ WordBoundary(s, p)
            /\ WordBoundary(s, p + Len(w))
         THEN r \o ReplaceWordFrom(s, p + Len(w), w, r)
         ELSE <<s[p]>> \o ReplaceWordFrom(s, p + 1, w, r)
ReplaceWord(s, w, r) == ReplaceWordFrom(s, 1, w, r)

\* s.split(w).join(r) from position p on
RECURSIVE SplitJoinFrom(_, _, _, _)
SplitJoinFrom(s, p, w, r) ==
    IF p > Len(s) THEN <<>>
    ELSE IF OccursAt(s, p, w)
         THEN r \o SplitJoinFrom(s, p + Len(w), w, r)
         ELSE <<s[p]>> \o SplitJoinFrom(s, p + 1, w, r)
SplitJoin(s, w, r) == SplitJoinFrom(s, 1, w, r)

\* F applied to the value of e: e is evaluated first, as a statement that
\* assigns it is executed before the statements that follow
Then(e, F(_)) == CHOOSE out \in {F(v) : v \in {e}} : TRUE

\* s contains w
Includes(s, w) == \E p \in 1 .. Len(s) : OccursAt(s, p, w)

\* ---------------------------------------------------------- the compiler
\* a call that throws: "throw new Error(message)"
Throw(message) == [kind |-> "throw", error |-> message]

\* --------------------------------------------------------- validateEquation
ErrEmpty == "La ecuacion no puede estar vacia"
ErrParentheses == "Parentesis no balanceados"
ErrInvalidChars == "La ecuacion contiene caracteres invalidos"
ErrSyntax == "Sintaxis invalida"

\* the parenthesis loop from position p on with the count so far: the final
\* count, or -1 as soon as the count is negative
RECURSIVE ParenthesisCountNoEarlyReturn(_, _, _)
ParenthesisCountNoEarlyReturn(s, p, count) ==
    IF p > Len(s) THEN count
    ELSE LET c == IF s[p] = "(" THEN count + 1
                  ELSE IF s[p] = ")" THEN count - 1
                  ELSE count
         IN  ParenthesisCountNoEarlyReturn(s, p + 1, c)

RECURSIVE ParenthesisCount(_, _, _)
ParenthesisCount(s, p, count) ==
    IF p > Len(s) THEN count
    ELSE LET c == IF s[p] = "(" THEN count + 1
                  ELSE IF s[p] = ")" THEN count - 1
                  ELSE count
         IN  IF c < 0 THEN 0 - 1 ELSE ParenthesisCount(s, p + 1, c)

\* /^[a-zA-Z0-9_+\-*/().,\s^]+$/
ValidChars(s) ==
    /\ s # <<>>
    /\ \A p \in DOMAIN s :
          \/ IsWordChar(s[p])
          \/ IsSpace(s[p])
          \/ s[p] \in {"+", "-", "*", "/", "(", ")", ".", ",", "^"}

\* validateEquation(equation); syntaxOk tells whether the trial
\* "new Function(...)" on the rewritten text accepts it
ValidateEquation(equation, syntaxOk) ==
    IF Trim(equation) = <<>> THEN [valid |-> FALSE, error |-> ErrEmpty]
    ELSE IF ParenthesisCount(equation, 1, 0) # 0
         THEN [valid |-> FALSE, error |-> ErrParentheses]
    ELSE IF ~ValidChars(equation) THEN [valid |-> FALSE, error |-> ErrInvalidChars]
    ELSE IF ~syntaxOk THEN [valid |-> FALSE, error |-> ErrSyntax]
    ELSE [valid |-> TRUE, error |-> ""]

\* longest text drawn as an input of validateEquation
MaxExprLen == 4

\* the characters these texts are made of
ExprAlphabet == {"(", ")", "x", " ", "$"}

ValidateInputs == UNION {[1 .. n -> ExprAlphabet] : n \in 0 .. MaxExprLen}

ValidateEquationCall ==
    /\ call = NoCall
    /\ \E equation \in ValidateInputs, syntaxOk \in BOOLEAN :
        /\ call' = [fn |-> "validateEquation", equation |-> equation]
        /\ ret' = [kind |-> "validation",
                   value |-> ValidateEquation(equation, syntaxOk)]

\* ------------------------------------------------------------ parseEquation
\* `Math.pow(${base}, ${exp})`
PowerCall(base, exp) == <<"M", "a", "t", "h", ".", "p", "o", "w", "(">> \o base \o <<",", " ">> \o exp \o <<")">>

\* Caso 1, from position p on:
\* replace(/([a-zA-Z_][a-zA-Z0-9_]*)\^(\d+\.?\d*)/g, Math.pow(base, exp))
RECURSIVE PowerOfIdentifierFrom(_, _)
PowerOfIdentifierFrom(s, p) ==
    IF p > Len(s) THEN <<>>
    ELSE LET e == IdentifierEnd(s, p)
             n == IF e # 0 /\ At(s, e) = "^" THEN NumeralEnd(s, e + 1) ELSE 0
         IN  IF n # 0
             THEN PowerCall(Slice(s, p, e - 1), Slice(s, e + 1, n - 1))
                      \o PowerOfIdentifierFrom(s, n)
             ELSE <<s[p]>> \o PowerOfIdentifierFrom(s, p + 1)

\* Caso 2, from position p on:
\* replace(/([a-zA-Z_][a-zA-Z0-9_]*)\^([a-zA-Z_][a-zA-Z0-9_]*)/g, ...)
RECURSIVE PowerToIdentifierFrom(_, _)
PowerToIdentifierFrom(s, p) ==
    IF p > Len(s) THEN <<>>
    ELSE LET e == IdentifierEnd(s, p)
             n == IF e # 0 /\ At(s, e) = "^" THEN IdentifierEnd(s, e + 1) ELSE 0
         IN  IF n # 0
             THEN PowerCall(Slice(s, p, e - 1), Slice(s, e + 1, n - 1))
                      \o PowerToIdentifierFrom(s, n)
             ELSE <<s[p]>> \o PowerToIdentifierFrom(s, p + 1)

\* Caso 3, first replace, from position p on:
\* replace(/\)\^(\d+\.?\d*)/g, `, ${exp})`)
RECURSIVE PowerOfClosingFrom(_, _)
PowerOfClosingFrom(s, p) ==
    IF p > Len(s) THEN <<>>
    ELSE LET n == IF s[p] = ")" /\ At(s, p + 1) = "^"
                  THEN NumeralEnd(s, p + 2) ELSE 0
         IN  IF n # 0
             THEN <<",", " ">> \o Slice(s, p + 2, n - 1) \o <<")">>
                      \o PowerOfClosingFrom(s, n)
             ELSE <<s[p]>> \o PowerOfClosingFrom(s, p + 1)

\* position after the longest run from p of characters other than ( and )
RECURSIVE NoParenEnd(_, _)
NoParenEnd(s, p) ==
    IF p <= Len(s) /\ s[p] \notin {"(", ")"} THEN NoParenEnd(s, p + 1) ELSE p

\* Caso 3, second replace, from position p on:
\* replace(/\(\(([^()]+)\), (\d+\.?\d*)\)/g, 'Math.pow($1, $2)')
RECURSIVE PowerOfGroupFrom(_, _)
PowerOfGroupFrom(s, p) ==
    IF p > Len(s) THEN <<>>
    ELSE LET q == IF s[p] = "(" /\ At(s, p + 1) = "(" THEN NoParenEnd(s, p + 2) ELSE 0
             n == IF q > p + 2 /\ At(s, q) = ")" /\ At(s, q + 1) = ","
                      /\ At(s, q + 2) = " "
                  THEN NumeralEnd(s, q + 3) ELSE 0
         IN  IF n # 0 /\ At(s, n) = ")"
             THEN PowerCall(Slice(s, p + 2, q - 1), Slice(s, q + 3, n - 1))
                      \o PowerOfGroupFrom(s, n + 1)
             ELSE <<s[p]>> \o PowerOfGroupFrom(s, p + 1)

\* Caso 4, from position p on:
\* replace(/(\d+\.?\d*)\^([a-zA-Z_][a-zA-Z0-9_]*)/g, ...)
RECURSIVE PowerOfNumeralFrom(_, _)
PowerOfNumeralFrom(s, p) ==
    IF p > Len(s) THEN <<>>
    ELSE LET e == NumeralEnd(s, p)
             n == IF e # 0 /\ At(s, e) = "^" THEN IdentifierEnd(s, e + 1) ELSE 0
         IN  IF n # 0
             THEN PowerCall(Slice(s, p, e - 1), Slice(s, e + 1, n - 1))
                      \o PowerOfNumeralFrom(s, n)
             ELSE <<s[p]>> \o PowerOfNumeralFrom(s, p + 1)

\* one round of the loop of convertPowers: the five replaces in order
ConvertPowersRound(s) ==
    Then(PowerOfIdentifierFrom(s, 1), LAMBDA caso1 :
    Then(PowerToIdentifierFrom(caso1, 1), LAMBDA caso2 :
    Then(PowerOfClosingFrom(caso2, 1), LAMBDA closed :
    Then(PowerOfGroupFrom(closed, 1), LAMBDA caso3 :
         PowerOfNumeralFrom(caso3, 1)))))

\* convertPowers: "while (result !== prevResult)"
RECURSIVE convertPowers(_)
convertPowers(expr) ==
    Then(ConvertPowersRound(expr),
         LAMBDA round : IF round = expr THEN round ELSE convertPowers(round))

\* the decimal text of an index below 10
IndexText(index) == <<DigitChars[index + 1]>>

\* `${PLACEHOLDER_PREFIX}${index}${PLACEHOLDER_SUFFIX}`
Placeholder(index) == <<"_", "_", "_", "V", "A", "R", "_">> \o IndexText(index) \o <<"_", "_", "_">>

\* `y[${index}]`
StateAccess(index) == <<"y", "[">> \o IndexText(index) \o <<"]">>

\* first pass over variables k .. : every word equal to a variable becomes
\* its placeholder
RECURSIVE ToPlaceholders(_, _, _)
ToPlaceholders(body, variables, k) ==
    IF k > Len(variables) THEN body
    ELSE Then(ReplaceWord(body, variables[k], Placeholder(k - 1)),
              LAMBDA replaced : ToPlaceholders(replaced, variables, k + 1))

\* second pass over variables k .. : every placeholder becomes y[index]
RECURSIVE FromPlaceholders(_, _, _)
FromPlaceholders(body, variables, k) ==
    IF k > Len(variables) THEN body
    ELSE Then(SplitJoin(body, Placeholder(k - 1), StateAccess(k - 1)),
              LAMBDA replaced : FromPlaceholders(replaced, variables, k + 1))

\* the two passes of variable binding
BindVariables(body, variables) ==
    Then(ToPlaceholders(body, variables, 1),
         LAMBDA held : FromPlaceholders(held, variables, 1))

\* the elements of a sequence
Range(seq) == {seq[k] : k \in DOMAIN seq}

\* the keys of MATH_FUNCTIONS and of MATH_CONSTANTS, in the order of the tables
MATH_FUNCTION_KEYS ==
    <<<<"s", "i", "n">>, <<"c", "o", "s">>, <<"t", "a", "n">>, <<"a", "s", "i", "n">>, <<"a", "c", "o", "s">>, <<"a", "t", "a", "n">>, <<"s", "i", "n", "h">>,
      <<"c", "o", "s", "h">>, <<"t", "a", "n", "h">>, <<"e", "x", "p">>, <<"l", "o", "g">>, <<"l", "n">>, <<"l", "o", "g", "1", "0">>, <<"s", "q", "r", "t">>,
      <<"a", "b", "s">>, <<"s", "i", "g", "n">>, <<"f", "l", "o", "o", "r">>, <<"c", "e", "i", "l">>, <<"r", "o", "u", "n", "d">>>>
MATH_CONSTANT_KEYS == <<<<"p", "i">>, <<"e">>, <<"P", "I">>, <<"E">>>>

\* the members of Math the two tables give their keys: MATH_FUNCTIONS[key]
\* and MATH_CONSTANTS[key], in the order of the keys
MATH_FUNCTION_VALUES ==
    <<<<"s", "i", "n">>, <<"c", "o", "s">>, <<"t", "a", "n">>, <<"a", "s", "i", "n">>, <<"a", "c", "o", "s">>, <<"a", "t", "a", "n">>, <<"s", "i", "n", "h">>,
      <<"c", "o", "s", "h">>, <<"t", "a", "n", "h">>, <<"e", "x", "p">>, <<"l", "o", "g">>, <<"l", "o", "g">>, <<"l", "o", "g", "1", "0">>, <<"s", "q", "r", "t">>,
      <<"a", "b", "s">>, <<"s", "i", "g", "n">>, <<"f", "l", "o", "o", "r">>, <<"c", "e", "i", "l">>, <<"r", "o", "u", "n", "d">>>>
MATH_CONSTANT_VALUES == <<<<"P", "I">>, <<"E">>, <<"P", "I">>, <<"E">>>>

\* the members of the Math object the source reads: those of the two tables
\* and pow; reading any other name yields undefined
MathObject == Range(MATH_FUNCTION_VALUES) \cup Range(MATH_CONSTANT_VALUES) \cup {<<"p", "o", "w">>}

\* the words paramRegex finds from position p on: /\b([a-zA-Z_][a-zA-Z0-9_]*)\b/g
RECURSIVE WordsFrom(_, _)
WordsFrom(s, p) ==
    IF p > Len(s) THEN <<>>
    ELSE LET e == IF WordBoundary(s, p) THEN IdentifierEnd(s, p) ELSE 0
         IN  IF e # 0
             THEN <<Slice(s, p, e - 1)>> \o WordsFrom(s, e)
             ELSE WordsFrom(s, p + 1)

\* a word is a parameter unless it is a variable, a key of the two tables,
\* y, t, params, Math or pow
IsParameterWord(word, variables) ==
    /\ word \notin Range(variables)
    /\ word \notin Range(MATH_FUNCTION_KEYS)
    /\ word \notin Range(MATH_CONSTANT_KEYS)
    /\ word \notin {<<"y">>, <<"t">>, <<"p", "a", "r", "a", "m", "s">>, <<"M", "a", "t", "h">>, <<"p", "o", "w">>}

\* usedParams: the parameter words, each once, in the order found
RECURSIVE UsedParams(_, _, _)
UsedParams(words, variables, found) ==
    IF words = <<>> THEN found
    ELSE UsedParams(Tail(words), variables,
                    IF IsParameterWord(Head(words), variables)
                       /\ Head(words) \notin Range(found)
                    THEN Append(found, Head(words)) ELSE found)

\* replace(/\bword\b/g, prefix + word) for every word of a list, in order
RECURSIVE PrefixWords(_, _, _)
PrefixWords(body, words, prefix) ==
    IF words = <<>> THEN body
    ELSE Then(ReplaceWord(body, Head(words), prefix \o Head(words)),
              LAMBDA replaced : PrefixWords(replaced, Tail(words), prefix))

\* the steps of parseEquation after variable binding: parameters become
\* params.name, keys of the two tables become Math.key
BindParametersAndMath(bound, variables) ==
    Then(UsedParams(WordsFrom(bound, 1), variables, <<>>), LAMBDA used :
    Then(PrefixWords(bound, used, <<"p", "a", "r", "a", "m", "s", ".">>), LAMBDA named :
    Then(PrefixWords(named, MATH_FUNCTION_KEYS, <<"M", "a", "t", "h", ".">>), LAMBDA called :
         PrefixWords(called, MATH_CONSTANT_KEYS, <<"M", "a", "t", "h", ".">>))))

\* the text parseEquation hands to new Function after "return "
FunctionBody(equation, variables) ==
    Then(convertPowers(Trim(equation)), LAMBDA powered :
    Then(BindVariables(powered, variables), LAMBDA bound :
         BindParametersAndMath(bound, variables)))

\* parseEquation(equation, variables); syntaxOk tells whether new Function
\* accepts the text.  A derivative function is known by its text.
parseEquation(equation, variables, syntaxOk) ==
    IF syntaxOk
    THEN [kind |-> "function", body |-> FunctionBody(equation, variables)]
    ELSE Throw("Error al parsear ecuacion")

\* ------------------------------------------------- parseSystem, parseEquations
ErrNoVariables == "No se encontraron variables en las ecuaciones"
ErrVariableCount == "Numero de variables no coincide con numero de ecuaciones"
ErrInvalidEquation == "Ecuacion invalida"
ErrInEquation == "Error en ecuacion"

\* eq.match(/d([a-zA-Z_][a-zA-Z0-9_]*)\s*\/\s*dt/) tried at position p: the
\* name captured, <<>> without a match there
DerivativeNameAt(eq, p) ==
    LET e == IF At(eq, p) = "d" THEN IdentifierEnd(eq, p + 1) ELSE 0
        q == IF e # 0 THEN SpacesEnd(eq, e) ELSE 0
        r == IF q # 0 /\ At(eq, q) = "/" THEN SpacesEnd(eq, q + 1) ELSE 0
    IN  IF r # 0 /\ At(eq, r) = "d" /\ At(eq, r + 1) = "t"
        THEN Slice(eq, p + 1, e - 1)
        ELSE <<>>

\* the first match from position p on, <<>> when there is none
RECURSIVE DerivativeNameFrom(_, _)
DerivativeNameFrom(eq, p) ==
    IF p > Len(eq) THEN <<>>
    ELSE IF DerivativeNameAt(eq, p) # <<>> THEN DerivativeNameAt(eq, p)
    ELSE DerivativeNameFrom(eq, p + 1)

\* extractVariables: the captured name of every equation that has a match
RECURSIVE extractVariables(_)
extractVariables(equations) ==
    IF equations = <<>> THEN <<>>
    ELSE LET name == DerivativeNameFrom(Head(equations), 1)
         IN  (IF name # <<>> THEN <<name>> ELSE <<>>)
                 \o extractVariables(Tail(equations))

\* the positions of "=" in an equation
EqualSigns(equation) == {p \in DOMAIN equation : equation[p] = "="}

\* extractRightHandSide: equation.split('=') must give two parts
extractRightHandSide(equation) ==
    IF Cardinality(EqualSigns(equation)) # 1 THEN Throw(ErrInvalidEquation)
    ELSE LET p == CHOOSE q \in EqualSigns(equation) : TRUE
         IN  [kind |-> "text", text |-> Trim(Slice(equation, p + 1, Len(equation)))]

\* where new Function rejects a text: at no text (at = 0), or at the text
\* numbered at, in the trial of validateEquation or in parseEquation
NoSyntaxError == [at |-> 0, where |-> "none"]
SyntaxErrors(n) ==
    {NoSyntaxError} \cup [at : 1 .. n, where : {"validateEquation", "parseEquation"}]

\* the loop of parseSystem from equation k on, with the functions compiled so far
RECURSIVE ParseSystemLoop(_, _, _, _, _)
ParseSystemLoop(equationStrings, variables, k, compiled, bad) ==
    IF k > Len(equationStrings)
    THEN [kind |-> "system", variables |-> variables, derivatives |-> compiled]
    ELSE LET rightSide  == extractRightHandSide(equationStrings[k])
             validation == ValidateEquation(rightSide.text,
                               ~(bad.at = k /\ bad.where = "validateEquation"))
             derivative == parseEquation(rightSide.text, variables,
                               ~(bad.at = k /\ bad.where = "parseEquation"))
         IN  IF rightSide.kind = "throw" THEN rightSide
             ELSE IF ~validation.valid THEN Throw(ErrInEquation)
             ELSE IF derivative.kind = "throw" THEN derivative
             ELSE ParseSystemLoop(equationStrings, variables, k + 1,
                                  Append(compiled, derivative), bad)

\* parseSystem without the comparison of the two lengths
parseSystemNoCountCheck(equationStrings, bad) ==
    LET variables == extractVariables(equationStrings)
    IN  IF Len(variables) = 0 THEN Throw(ErrNoVariables)
        ELSE ParseSystemLoop(equationStrings, variables, 1, <<>>, bad)

\* parseSystem(equationStrings)
parseSystem(equationStrings, bad) ==
    LET variables == extractVariables(equationStrings)
    IN  IF Len(variables) = 0 THEN Throw(ErrNoVariables)
        ELSE IF Len(variables) # Len(equationStrings) THEN Throw(ErrVariableCount)
        ELSE ParseSystemLoop(equationStrings, variables, 1, <<>>, bad)

\* the loop of parseEquations from expression k on
RECURSIVE ParseEquationsLoop(_, _, _, _, _)
ParseEquationsLoop(equations, variables, k, compiled, bad) ==
    IF k > Len(equations)
    THEN [kind |-> "derivatives", derivatives |-> compiled]
    ELSE LET validation == ValidateEquation(equations[k],
                               ~(bad.at = k /\ bad.where = "validateEquation"))
             derivative == parseEquation(equations[k], variables,
                               ~(bad.at = k /\ bad.where = "parseEquation"))
         IN  IF ~validation.valid THEN Throw(ErrInEquation)
             ELSE IF derivative.kind = "throw" THEN derivative
             ELSE ParseEquationsLoop(equations, variables, k + 1,
                                     Append(compiled, derivative), bad)

\* parseEquations(equations, variables, params)
parseEquations(equations, variables, bad) ==
    ParseEquationsLoop(equations, variables, 1, <<>>, bad)

\* ------------------------------------------------- inputs of the compiler
\* most equations in a batch and most variables in a list drawn as inputs
MaxEquations == 2

\* every sequence of at most n elements of a set
SeqUpTo(S, n) == UNION {[1 .. k -> S] : k \in 0 .. n}

\* words for the expressions that exercise variable binding: variables,
\* names that contain a variable name, and a name that is a placeholder
BindingWords ==
    {<<"x">>, <<"y">>, <<"x", "y">>, <<"g", "a", "m", "m", "a", "_", "y">>, <<"s", "i", "g", "m", "a">>, <<"_", "_", "_", "V", "A", "R", "_", "0", "_", "_", "_">>}

\* w1*(w2 - w3), the shape of the first Lorenz equation
BindingExpressions ==
    {w1 \o <<"*", "(">> \o w2 \o <<" ", "-", " ">> \o w3 \o <<")">> :
        w1 \in BindingWords, w2 \in BindingWords, w3 \in BindingWords}

BindingVariables ==
    {<<<<"x">>, <<"y">>, <<"z">>>>, <<<<"y">>, <<"x">>>>, <<<<"x">>, <<"_", "_", "_", "V", "A", "R", "_", "0", "_", "_", "_">>>>}

\* one use of every key of the two tables: key(x) and key*x
MathExpressions ==
    {MATH_FUNCTION_KEYS[k] \o <<"(", "x", ")">> : k \in DOMAIN MATH_FUNCTION_KEYS}
        \cup {MATH_CONSTANT_KEYS[k] \o <<"*", "x">> : k \in DOMAIN MATH_CONSTANT_KEYS}

\* bases and exponents of the power expressions: an identifier, a numeral,
\* a parenthesized sub-expression; for the exponent also a signed numeral
PowerBases == {<<"x">>, <<"o", "m", "e", "g", "a">>, <<"2">>, <<"(", "x", "+", "1", ")">>, <<"(", "x", ")">>}
PowerExponents == {<<"n">>, <<"2">>, <<"-", "2">>, <<"+", "2">>, <<"(", "n", "+", "1", ")">>, <<"(", "2", ")">>}
PowerPrefixes == {<<>>, <<"a", "*">>, <<"1", "+">>}
PowerExpressions ==
    {pre \o base \o <<"^">> \o exp :
        pre \in PowerPrefixes, base \in PowerBases, exp \in PowerExponents}

ParseEquationInputs ==
    [equation : BindingExpressions, variables : BindingVariables]
        \cup [equation : MathExpressions \cup PowerExpressions,
              variables : {<<<<"x">>>>}]

\* the equations a batch handed to parseSystem is made of
SystemEquations ==
    {<<"d", "x", "/", "d", "t", " ", "=", " ", "y">>, <<"d", "y", "/", "d", "t", " ", "=", " ", "-", "x">>, <<"d", "x", " ", "/", " ", "d", "t", " ", "=", " ", "x", "*", "y">>, <<"x", " ", "=", " ", "y">>,
     <<"d", "y", "/", "d", "t", " ", "=", " ", "x", " ", "=", " ", "y">>, <<"d", "_", "_", "_", "V", "A", "R", "_", "0", "_", "_", "_", "/", "d", "t", " ", "=", " ", "x">>}

\* the expressions and the variable names handed to parseEquations
EditorExpressions == {<<"y">>, <<"-", "x">>, <<"x", "*", "(">>}
EditorNames == {<<"x">>, <<"y">>}

ParseEquationCall ==
    /\ call = NoCall
    /\ \E input \in ParseEquationInputs, syntaxOk \in BOOLEAN :
        /\ call' = [fn |-> "parseEquation", equation |-> input.equation,
                    variables |-> input.variables]
        /\ ret' = parseEquation(input.equation, input.variables, syntaxOk)

ParseSystemCall ==
    /\ call = NoCall
    /\ \E equationStrings \in SeqUpTo(SystemEquations, MaxEquations) :
        \E bad \in SyntaxErrors(Len(equationStrings)) :
            /\ call' = [fn |-> "parseSystem", equations |-> equationStrings]
            /\ ret' = parseSystem(equationStrings, bad)

ParseEquationsCall ==
    /\ call = NoCall
    /\ \E equations \in SeqUpTo(EditorExpressions, MaxEquations),
          variables \in SeqUpTo(EditorNames, MaxEquations) :
        \E bad \in SyntaxErrors(Len(equations)) :
            /\ call' = [fn |-> "parseEquations", equations |-> equations,
                        variables |-> variables]
            /\ ret' = parseEquations(equations, variables, bad)

\* the catalog: for each system its id, its variables, the names declared in
\* its parameters map and its equations
EXAMPLE_SYSTEMS ==
  <<
    [id |-> "lorenz",
     variables |-> <<<<"x">>, <<"y">>, <<"z">>>>,
     parameters |-> <<<<"s", "i", "g", "m", "a">>, <<"r", "h", "o">>, <<"b", "e", "t", "a">>>>,
     equations |->
        <<<<"d", "x", "/", "d", "t", " ", "=", " ", "s", "i", "g", "m", "a", "*", "(", "y",
              " ", "-", " ", "x", ")">>,
          <<"d", "y", "/", "d", "t", " ", "=", " ", "x", "*", "(", "r", "h", "o", " ", "-",
              " ", "z", ")", " ", "-", " ", "y">>,
          <<"d", "z", "/", "d", "t", " ", "=", " ", "x", "*", "y", " ", "-", " ", "b", "e",
              "t", "a", "*", "z">>>>],
    [id |-> "vanderpol",
     variables |-> <<<<"x">>, <<"y">>>>,
     parameters |-> <<<<"m", "u">>>>,
     equations |->
        <<<<"d", "x", "/", "d", "t", " ", "=", " ", "y">>,
          <<"d", "y", "/", "d", "t", " ", "=", " ", "m", "u", "*", "(", "1", " ", "-", " ",
              "x", "*", "x", ")", "*", "y", " ", "-", " ", "x">>>>],
    [id |-> "lotka-volterra",
     variables |-> <<<<"x">>, <<"y">>>>,
     parameters |-> <<<<"a", "l", "p", "h", "a">>, <<"b", "e", "t", "a">>,
                     <<"g", "a", "m", "m", "a">>, <<"d", "e", "l", "t", "a">>>>,
     equations |->
        <<<<"d", "x", "/", "d", "t", " ", "=", " ", "a", "l", "p", "h", "a", "*", "x", " ",
              "-", " ", "b", "e", "t", "a", "*", "x", "*", "y">>,
          <<"d", "y", "/", "d", "t", " ", "=", " ", "d", "e", "l", "t", "a", "*", "x", "*",
              "y", " ", "-", " ", "g", "a", "m", "m", "a", "*", "y">>>>],
    [id |-> "pendulum",
     variables |-> <<<<"t", "h", "e", "t", "a">>, <<"o", "m", "e", "g", "a">>>>,
     parameters |-> <<<<"g">>, <<"L">>>>,
     equations |->
        <<<<"d", "t", "h", "e", "t", "a", "/", "d", "t", " ", "=", " ", "o", "m", "e", "g",
              "a">>,
          <<"d", "o", "m", "e", "g", "a", "/", "d", "t", " ", "=", " ", "-", "(", "g", "/",
              "L", ")", "*", "s", "i", "n", "(", "t", "h", "e", "t", "a", ")">>>>],
    [id |-> "duffing",
     variables |-> <<<<"x">>, <<"v">>>>,
     parameters |-> <<<<"a", "l", "p", "h", "a">>, <<"b", "e", "t", "a">>,
                     <<"d", "e", "l", "t", "a">>, <<"g", "a", "m", "m", "a">>,
                     <<"o", "m", "e", "g", "a">>>>,
     equations |->
        <<<<"d", "x", "/", "d", "t", " ", "=", " ", "v">>,
          <<"d", "v", "/", "d", "t", " ", "=", " ", "-", "d", "e", "l", "t", "a", "*", "v",
              " ", "-", " ", "a", "l", "p", "h", "a", "*", "x", " ", "-", " ", "b", "e", "t",
              "a", "*", "x", "*", "x", "*", "x", " ", "+", " ", "g", "a", "m", "m", "a", "*",
              "c", "o", "s", "(", "o", "m", "e", "g", "a", "*", "t", ")">>>>],
    [id |-> "rossler",
     variables |-> <<<<"x">>, <<"y">>, <<"z">>>>,
     parameters |-> <<<<"a">>, <<"b">>, <<"c">>>>,
     equations |->
        <<<<"d", "x", "/", "d", "t", " ", "=", " ", "-", "y", " ", "-", " ", "z">>,
          <<"d", "y", "/", "d", "t", " ", "=", " ", "x", " ", "+", " ", "a", "*", "y">>,
          <<"d", "z", "/", "d", "t", " ", "=", " ", "b", " ", "+", " ", "z", "*", "(", "x",
              " ", "-", " ", "c", ")">>>>],
    [id |-> "harmonic",
     variables |-> <<<<"x">>, <<"v">>>>,
     parameters |-> <<<<"k">>, <<"m">>>>,
     equations |->
        <<<<"d", "x", "/", "d", "t", " ", "=", " ", "v">>,
          <<"d", "v", "/", "d", "t", " ", "=", " ", "-", "(", "k", "/", "m", ")", "*", "x">>>>],
    [id |-> "damped-oscillator",
     variables |-> <<<<"x">>, <<"v">>>>,
     parameters |-> <<<<"k">>, <<"m">>, <<"c">>>>,
     equations |->
        <<<<"d", "x", "/", "d", "t", " ", "=", " ", "v">>,
          <<"d", "v", "/", "d", "t", " ", "=", " ", "-", "(", "k", "/", "m", ")", "*", "x",
              " ", "-", " ", "(", "c", "/", "m", ")", "*", "v">>>>],
    [id |-> "fitzhugh-nagumo",
     variables |-> <<<<"v">>, <<"w">>>>,
     parameters |-> <<<<"a">>, <<"b">>, <<"t", "a", "u">>, <<"I">>>>,
     equations |->
        <<<<"d", "v", "/", "d", "t", " ", "=", " ", "v", " ", "-", " ", "v", "*", "v", "*",
              "v", "/", "3", " ", "-", " ", "w", " ", "+", " ", "I">>,
          <<"d", "w", "/", "d", "t", " ", "=", " ", "(", "v", " ", "+", " ", "a", " ", "-",
              " ", "b", "*", "w", ")", "/", "t", "a", "u">>>>],
    [id |-> "brusselator",
     variables |-> <<<<"x">>, <<"y">>>>,
     parameters |-> <<<<"a">>, <<"b">>>>,
     equations |->
        <<<<"d", "x", "/", "d", "t", " ", "=", " ", "a", " ", "+", " ", "x", "*", "x", "*",
              "y", " ", "-", " ", "b", "*", "x", " ", "-", " ", "x">>,
          <<"d", "y", "/", "d", "t", " ", "=", " ", "b", "*", "x", " ", "-", " ", "x", "*",
              "x", "*", "y">>>>],
    [id |-> "sir",
     variables |-> <<<<"S">>, <<"I">>, <<"R">>>>,
     parameters |-> <<<<"b", "e", "t", "a">>, <<"g", "a", "m", "m", "a">>>>,
     equations |->
        <<<<"d", "S", "/", "d", "t", " ", "=", " ", "-", "b", "e", "t", "a", "*", "S", "*",
              "I">>,
          <<"d", "I", "/", "d", "t", " ", "=", " ", "b", "e", "t", "a", "*", "S", "*", "I",
              " ", "-", " ", "g", "a", "m", "m", "a", "*", "I">>,
          <<"d", "R", "/", "d", "t", " ", "=", " ", "g", "a", "m", "m", "a", "*", "I">>>>],
    [id |-> "henon-heiles",
     variables |-> <<<<"x">>, <<"y">>, <<"p", "x">>, <<"p", "y">>>>,
     parameters |-> <<<<"l", "a", "m", "b", "d", "a">>>>,
     equations |->
        <<<<"d", "x", "/", "d", "t", " ", "=", " ", "p", "x">>,
          <<"d", "y", "/", "d", "t", " ", "=", " ", "p", "y">>,
          <<"d", "p", "x", "/", "d", "t", " ", "=", " ", "-", "x", " ", "-", " ", "2", "*",
              "l", "a", "m", "b", "d", "a", "*", "x", "*", "y">>,
          <<"d", "p", "y", "/", "d", "t", " ", "=", " ", "-", "y", " ", "-", " ", "l", "a",
              "m", "b", "d", "a", "*", "(", "x", "*", "x", " ", "-", " ", "y", "*", "y", ")">>>>],
    [id |-> "double-well",
     variables |-> <<<<"x">>, <<"v">>>>,
     parameters |-> <<<<"a">>, <<"b">>, <<"g", "a", "m", "m", "a">>>>,
     equations |->
        <<<<"d", "x", "/", "d", "t", " ", "=", " ", "v">>,
          <<"d", "v", "/", "d", "t", " ", "=", " ", "a", "*", "x", " ", "-", " ", "b", "*",
              "x", "*", "x", "*", "x", " ", "-", " ", "g", "a", "m", "m", "a", "*", "v">>>>],
    [id |-> "thomas",
     variables |-> <<<<"x">>, <<"y">>, <<"z">>>>,
     parameters |-> <<<<"b">>>>,
     equations |->
        <<<<"d", "x", "/", "d", "t", " ", "=", " ", "s", "i", "n", "(", "y", ")", " ", "-",
              " ", "b", "*", "x">>,
          <<"d", "y", "/", "d", "t", " ", "=", " ", "s", "i", "n", "(", "z", ")", " ", "-",
              " ", "b", "*", "y">>,
          <<"d", "z", "/", "d", "t", " ", "=", " ", "s", "i", "n", "(", "x", ")", " ", "-",
              " ", "b", "*", "z">>>>],
    [id |-> "aizawa",
     variables |-> <<<<"x">>, <<"y">>, <<"z">>>>,
     parameters |-> <<<<"a">>, <<"b">>, <<"c">>, <<"d">>, <<"e">>, <<"f">>>>,
     equations |->
        <<<<"d", "x", "/", "d", "t", " ", "=", " ", "(", "z", " ", "-", " ", "b", ")", "*",
              "x", " ", "-", " ", "d", "*", "y">>,
          <<"d", "y", "/", "d", "t", " ", "=", " ", "d", "*", "x", " ", "+", " ", "(", "z",
              " ", "-", " ", "b", ")", "*", "y">>,
          <<"d", "z", "/", "d", "t", " ", "=", " ", "c", " ", "+", " ", "a", "*", "z", " ",
              "-", " ", "z", "*", "z", "*", "z", "/", "3", " ", "-", " ", "(", "x", "*", "x",
              " ", "+", " ", "y", "*", "y", ")", "*", "(", "1", " ", "+", " ", "e", "*", "z",
              ")", " ", "+", " ", "f", "*", "z", "*", "x", "*", "x", "*", "x">>>>],
    [id |-> "morris-lecar",
     variables |-> <<<<"V">>, <<"W">>>>,
     parameters |-> <<<<"C">>, <<"g", "L">>, <<"g", "C", "a">>, <<"g", "K">>, <<"V", "L">>,
                     <<"V", "C", "a">>, <<"V", "K">>, <<"V", "1">>, <<"V", "2">>, <<"V", "3">>,
                     <<"V", "4">>, <<"p", "h", "i">>, <<"I", "a", "p", "p">>>>,
     equations |->
        <<<<"d", "V", "/", "d", "t", " ", "=", " ", "(", "I", "a", "p", "p", " ", "-", " ",
              "g", "L", "*", "(", "V", " ", "-", " ", "V", "L", ")", " ", "-", " ", "g", "C",
              "a", "*", "0", ".", "5", "*", "(", "1", " ", "+", " ", "t", "a", "n", "h", "(",
              "(", "V", " ", "-", " ", "V", "1", ")", "/", "V", "2", ")", ")", "*", "(", "V",
              " ", "-", " ", "V", "C", "a", ")", " ", "-", " ", "g", "K", "*", "W", "*", "(",
              "V", " ", "-", " ", "V", "K", ")", ")", "/", "C">>,
          <<"d", "W", "/", "d", "t", " ", "=", " ", "p", "h", "i", "*", "(", "0", ".", "5",
              "*", "(", "1", " ", "+", " ", "t", "a", "n", "h", "(", "(", "V", " ", "-", " ",
              "V", "3", ")", "/", "V", "4", ")", ")", " ", "-", " ", "W", ")", "/", "c", "o",
              "s", "h", "(", "(", "V", " ", "-", " ", "V", "3", ")", "/", "(", "2", "*", "V",
              "4", ")", ")">>>>],
    [id |-> "hindmarsh-rose",
     variables |-> <<<<"x">>, <<"y">>, <<"z">>>>,
     parameters |-> <<<<"a">>, <<"b">>, <<"c">>, <<"d">>, <<"s">>, <<"x", "R">>, <<"r">>,
                     <<"I">>>>,
     equations |->
        <<<<"d", "x", "/", "d", "t", " ", "=", " ", "y", " ", "-", " ", "a", "*", "x", "*",
              "x", "*", "x", " ", "+", " ", "b", "*", "x", "*", "x", " ", "-", " ", "z", " ",
              "+", " ", "I">>,
          <<"d", "y", "/", "d", "t", " ", "=", " ", "c", " ", "-", " ", "d", "*", "x", "*",
              "x", " ", "-", " ", "y">>,
          <<"d", "z", "/", "d", "t", " ", "=", " ", "r", "*", "(", "s", "*", "(", "x", " ",
              "-", " ", "x", "R", ")", " ", "-", " ", "z", ")">>>>],
    [id |-> "fitzhugh-nagumo",
     variables |-> <<<<"v">>, <<"w">>>>,
     parameters |-> <<<<"a">>, <<"b">>, <<"t", "a", "u">>, <<"I">>>>,
     equations |->
        <<<<"d", "v", "/", "d", "t", " ", "=", " ", "v", " ", "-", " ", "v", "*", "v", "*",
              "v", "/", "3", " ", "-", " ", "w", " ", "+", " ", "I">>,
          <<"d", "w", "/", "d", "t", " ", "=", " ", "(", "v", " ", "+", " ", "a", " ", "-",
              " ", "b", "*", "w", ")", "/", "t", "a", "u">>>>],
    [id |-> "carrillo-hoppensteadt",
     variables |-> <<<<"V">>, <<"I">>>>,
     parameters |-> <<<<"e", "p", "s", "i", "l", "o", "n">>, <<"S">>, <<"R">>>>,
     equations |->
        <<<<"d", "V", "/", "d", "t", " ", "=", " ", "e", "p", "s", "i", "l", "o", "n", " ",
              "*", " ", "(", "S", " ", "-", " ", "V", " ", "-", " ", "R", "*", "I", ")">>,
          <<"d", "I", "/", "d", "t", " ", "=", " ", "V", " ", "-", " ", "0", ".", "0", "0",
              "7", "5", "*", "I", " ", "-", " ", "2", "*", "I", "*", "e", "x", "p", "(", "-",
              "I", "/", "2", ")">>>>]
  >>

\* usedParams of parseEquation for an equation of the catalog: the words
\* taken for parameters. The code scans the body after the variables are
\* bound; binding turns the words that are variables into y[k] and leaves the
\* other words as written, and the test refuses both y and the variables, so
\* the scan is made on the text as written (no catalog equation has a power
\* to convert)
ParametersRead(equation, variables) ==
    UsedParams(WordsFrom(Trim(equation), 1), variables, <<>>)

\* parseSystem on a system of the catalog, as handleSelectSystem calls it,
\* followed through extractVariables, extractRightHandSide and parseEquation
\* up to usedParams: the names each derivative reads from params
ParseCatalogSystemCall ==
    /\ call = NoCall
    /\ \E k \in DOMAIN EXAMPLE_SYSTEMS :
        LET system == EXAMPLE_SYSTEMS[k]
            variables == extractVariables(system.equations)
        IN  /\ call' = [fn |-> "usedParams", system |-> k]
            /\ ret' = [kind |-> "usedParams",
                       names |-> [e \in DOMAIN system.equations |->
                           ParametersRead(extractRightHandSide(system.equations[e]).text,
                                          variables)]]

CompileNext ==
    \/ ValidateEquationCall /\ UNCHANGED <<solverVars, derivatives, appVars, plotVars>>
    \/ ParseEquationCall /\ UNCHANGED <<solverVars, derivatives, appVars, plotVars>>
    \/ ParseSystemCall /\ UNCHANGED <<solverVars, derivatives, appVars, plotVars>>
    \/ ParseEquationsCall /\ UNCHANGED <<solverVars, derivatives, appVars, plotVars>>
    \/ ParseCatalogSystemCall /\ UNCHANGED <<solverVars, derivatives, appVars, plotVars>>

\* one call of a function of the expression compiler
CompileSpec == Init /\ [][CompileNext]_vars

\* ------------------------------------------------ the application's state
\* App holds systemState; CustomEquationEditor shows globalError.  What the
\* editor's inputs hold when Apply is pressed is an input of validateAndApply.

NoEquation == [kind |-> "null"]
NoError == "null"
ErrNoEquation == "No hay ecuacion definida"
ErrIntegration == "Error en la integracion"
ErrUniqueNames == "Los nombres de variables deben ser unicos"
ErrEmptyNames == "Los nombres de variables no pueden estar vacios"
ErrHasErrors == "Hay errores en las ecuaciones. Corrigelos antes de continuar."
ErrProcessing == "Error al procesar las ecuaciones"
ErrLoadSystem == "Error al cargar sistema"

\* { ...parameters, [name]: value }: the value of an own key is replaced in
\* place, a new key is added last
SetParameter(parameters, name, value) ==
    IF \E k \in DOMAIN parameters : parameters[k].name = name
    THEN [k \in DOMAIN parameters |->
             IF parameters[k].name = name THEN [name |-> name, value |-> value]
             ELSE parameters[k]]
    ELSE Append(parameters, [name |-> name, value |-> value])

\* paramObj: parameters.forEach(p => { paramObj[p.name] = p.value; })
RECURSIVE ParamObject(_, _)
ParamObject(list, obj) ==
    IF list = <<>> THEN obj
    ELSE ParamObject(Tail(list), SetParameter(obj, Head(list).name, Head(list).value))

\* handleEquationChange(equation): the state App holds afterwards
handleEquationChange(prev, equation) ==
    [prev EXCEPT !.equation = equation,
                 !.error = NoError,
                 !.initialValues =
                     [k \in DOMAIN equation.variables |->
                         IF k \in DOMAIN prev.initialValues /\ prev.initialValues[k] # 0
                         THEN prev.initialValues[k] ELSE 1]]

EquationDefinition(variables, parameters, equations, compiled) ==
    [kind |-> "equation", variables |-> variables, parameters |-> parameters,
     equations |-> equations, derivatives |-> compiled]

\* the catalog handed to SystemLibrary, a system being its equations and its
\* parameters: the systems harmonic and vanderpol of EXAMPLE_SYSTEMS, and an
\* entry whose second equation declares no derivative, as a catalog that is
\* edited can hold
CatalogSystems ==
    {[equations |-> <<<<"d", "x", "/", "d", "t", " ", "=", " ", "v">>,
                      <<"d", "v", "/", "d", "t", " ", "=", " ", "-", "(", "k", "/", "m", ")", "*", "x">>>>,
      parameters |-> <<[name |-> <<"k">>, value |-> 1], [name |-> <<"m">>, value |-> 1]>>],
     [equations |-> <<<<"d", "x", "/", "d", "t", " ", "=", " ", "y">>,
                      <<"d", "y", "/", "d", "t", " ", "=", " ", "m", "u", "*", "(", "1", " ", "-", " ", "x", "*", "x", ")", "*", "y", " ", "-", " ", "x">>>>,
      parameters |-> <<[name |-> <<"m", "u">>, value |-> 1]>>],
     [equations |-> <<<<"d", "x", "/", "d", "t", " ", "=", " ", "y">>,
                      <<"x", " ", "=", " ", "y">>>>,
      parameters |-> <<>>]}

\* what the user has typed into the editor when Apply is pressed: the rows
\* (variable name and expression) and the parameter list
Row(name, expression) == [name |-> name, expression |-> expression]
TypedRows ==
    {<<Row(<<"x">>, <<"y">>), Row(<<"y">>, <<"-", "x">>)>>,
     <<Row(<<"y">>, <<"y">>)>>,
     <<Row(<<"x">>, <<"x", "*", "(">>), Row(<<"y">>, <<"y">>)>>,
     <<Row(<<"x">>, <<"y">>), Row(<<"x">>, <<"-", "x">>)>>,
     <<Row(<<"x">>, <<"y">>), Row(<<>>, <<"-", "x">>)>>,
     <<Row(<<"x">>, <<>>), Row(<<"y">>, <<>>)>>}
TypedParameters == {<<>>, <<[name |-> <<"a">>, value |-> 1]>>}

\* what parseFloat makes of the text typed for a parameter
TypedValues == {1, 2, NaN}

\* a function held as the table of its values
Tabulated(f) == f @@ << >>

\* what parseSystem makes of each catalog system
CatalogCompiled ==
    Tabulated([system \in CatalogSystems |->
        Tabulated([bad \in SyntaxErrors(Len(system.equations)) |->
            parseSystem(system.equations, bad)])])

\* handleSelectSystem(systemId)
handleSelectSystem ==
    \E system \in CatalogSystems : \E bad \in SyntaxErrors(Len(system.equations)) :
        LET parsed == CatalogCompiled[system][bad]
            equation == EquationDefinition(parsed.variables, system.parameters,
                                           system.equations, parsed.derivatives)
        IN  IF parsed.kind = "throw"
            THEN /\ console' = console \cup {ErrLoadSystem}
                 /\ attempt' = "throw"
                 /\ UNCHANGED <<systemState, globalError>>
            ELSE /\ systemState' = handleEquationChange(systemState, equation)
                 /\ attempt' = "compiled"
                 /\ UNCHANGED <<console, globalError>>

\* validateEquation for each row: hasErrors
HasErrors(rows, bad) ==
    \E k \in DOMAIN rows :
        ~ValidateEquation(rows[k].expression,
                          ~(bad.at = k /\ bad.where = "validateEquation")).valid

\* what validateAndApply makes of the editor's content: the message it
\* shows, or the definition it hands to onEquationChange
Applied(rows, parameters, bad) ==
    LET varNames == [k \in DOMAIN rows |-> rows[k].name]
        paramObj == ParamObject(parameters, <<>>)
        equations == [k \in DOMAIN rows |-> rows[k].expression]
        parsed == parseEquations(equations, varNames, bad)
    IN  IF Cardinality(Range(varNames)) # Len(varNames)
        THEN [kind |-> "invalid", error |-> ErrUniqueNames]
        ELSE IF \E k \in DOMAIN varNames : varNames[k] = <<>>
        THEN [kind |-> "invalid", error |-> ErrEmptyNames]
        ELSE IF HasErrors(rows, bad) THEN [kind |-> "invalid", error |-> ErrHasErrors]
        ELSE IF parsed.kind = "throw" THEN [kind |-> "throw", error |-> ErrProcessing]
        ELSE EquationDefinition(varNames, paramObj, equations, parsed.derivatives)

EditorApplied ==
    Tabulated([rows \in TypedRows |->
        Tabulated([parameters \in TypedParameters |->
            Tabulated([bad \in SyntaxErrors(Len(rows)) |->
                Applied(rows, parameters, bad)])])])

\* validateAndApply()
validateAndApply ==
    \E rows \in TypedRows : \E parameters \in TypedParameters :
    \E bad \in SyntaxErrors(Len(rows)) :
        LET applied == EditorApplied[rows][parameters][bad]
        IN  IF applied.kind = "equation"
            THEN /\ systemState' = handleEquationChange(systemState, applied)
                 /\ globalError' = NoError
                 /\ attempt' = "compiled"
                 /\ UNCHANGED console
            ELSE /\ globalError' = applied.error
                 /\ attempt' = applied.kind
                 /\ UNCHANGED <<systemState, console>>

\* handleParameterChange(paramName, value) of EquationEditor, whose onChange
\* is handleEquationChange
handleParameterChange ==
    /\ systemState.equation.kind = "equation"
    /\ \E k \in DOMAIN systemState.equation.parameters : \E numValue \in TypedValues :
        LET equation == systemState.equation
            updatedEquation ==
                [equation EXCEPT !.parameters =
                    SetParameter(equation.parameters, equation.parameters[k].name, numValue)]
        IN  IF numValue = NaN
            THEN UNCHANGED <<systemState, globalError, console, attempt>>
            ELSE /\ systemState' = handleEquationChange(systemState, updatedEquation)
                 /\ UNCHANGED <<globalError, console, attempt>>

\* largest step count of a result drawn as an input
MaxRunSteps == 1

\* what parseFloat makes of the text typed for an initial value, and of the
\* text typed for the initial time or the end time
TypedInitialValues == {0, 2, NaN}
TypedTimes == {1}

\* handleInitialConditionChange(index, value) of ControlPanel, whose
\* onInitialConditionsChange is handleInitialConditionsChange
handleInitialConditionChange ==
    /\ systemState.equation.kind = "equation"
    /\ \E index \in DOMAIN systemState.equation.variables :
       \E numValue \in TypedInitialValues :
        IF numValue = NaN
        THEN UNCHANGED <<systemState, globalError, console, attempt>>
        ELSE /\ index \in DOMAIN systemState.initialValues
             /\ systemState' = [systemState EXCEPT !.initialValues[index] = numValue]
             /\ UNCHANGED <<globalError, console, attempt>>

\* the onChange of the initial-time input
handleInitialTimeChange ==
    /\ \E value \in TypedTimes : systemState' = [systemState EXCEPT !.time = value]
    /\ UNCHANGED <<globalError, console, attempt>>

\* the onChange of the end-time input, whose onSolverConfigChange is
\* handleSolverConfigChange
handleSolverConfigChange ==
    /\ \E value \in TypedTimes : systemState' = [systemState EXCEPT !.tEnd = value]
    /\ UNCHANGED <<globalError, console, attempt>>

\* a result of integrate: a solver records one point more than it counts
\* steps
RunResult(success, n) == [kind |-> "result", success |-> success, steps |-> n]
Recorded(run) == run.steps + 1

\* handleRun(): integrate succeeds, reports a failure, or throws
handleRun ==
    IF systemState.equation.kind = "null"
    THEN /\ systemState' = [systemState EXCEPT !.error = ErrNoEquation]
         /\ UNCHANGED <<globalError, console, attempt>>
    ELSE \E outcome \in {"success", "failure", "throw"}, n \in 0 .. MaxRunSteps :
         /\ systemState' =
                IF outcome = "throw"
                THEN [systemState EXCEPT !.error = ErrIntegration]
                ELSE [systemState EXCEPT
                         !.result = RunResult(outcome = "success", n),
                         !.error = IF outcome = "success" THEN NoError ELSE ErrIntegration]
         /\ UNCHANGED <<globalError, console, attempt>>

\* handleReset()
handleReset ==
    /\ systemState' = [systemState EXCEPT !.result = [kind |-> "null"], !.error = NoError]
    /\ UNCHANGED <<globalError, console, attempt>>

\* plotData of PhaseSpacePlot: the traces built from the result, each with
\* the number of points it draws. The nullcline traces of a two-variable
\* system, which are not built from the recorded points, are left out
PhaseSpaceTraces(run, equation) ==
    IF run.kind = "null" \/ equation.kind = "null" THEN <<>>
    ELSE IF ~run.success THEN <<>>
    ELSE IF Len(equation.variables) >= 3
    THEN <<[type |-> "scatter3d", name |-> "Trayectoria", points |-> Recorded(run)]>>
    ELSE IF Len(equation.variables) >= 2
    THEN <<[type |-> "scatter", name |-> "Trayectoria", points |-> Recorded(run)],
           [type |-> "scatter", name |-> "Inicio", points |-> 1]>>
    ELSE <<>>

\* plotData of TimeSeriesPlot: one trace for each variable
TimeSeriesTraces(run, equation) ==
    IF run.kind = "null" \/ equation.kind = "null" THEN <<>>
    ELSE IF ~run.success THEN <<>>
    ELSE [k \in DOMAIN equation.variables |->
             [type |-> "scatter", name |-> equation.variables[k],
              points |-> Recorded(run)]]

\* what either plot component renders: the invitation to run, the error
\* text alone, or the plot of its traces
PlotView(run, equation, traces) ==
    IF run.kind = "null" \/ equation.kind = "null"
    THEN [shows |-> "placeholder", message |-> "none", traces |-> <<>>]
    ELSE IF ~run.success
    THEN [shows |-> "message", message |-> "Error en la simulacion", traces |-> <<>>]
    ELSE [shows |-> "plot", message |-> "none", traces |-> traces]

AppNext ==
    \/ handleSelectSystem /\ UNCHANGED <<solverVars, derivatives, compilerVars, plotVars>>
    \/ validateAndApply /\ UNCHANGED <<solverVars, derivatives, compilerVars, plotVars>>
    \/ handleParameterChange /\ UNCHANGED <<solverVars, derivatives, compilerVars, plotVars>>
    \/ handleRun /\ UNCHANGED <<solverVars, derivatives, compilerVars, plotVars>>
    \/ handleReset /\ UNCHANGED <<solverVars, derivatives, compilerVars, plotVars>>
    \/ handleInitialConditionChange
           /\ UNCHANGED <<solverVars, derivatives, compilerVars, plotVars>>
    \/ handleInitialTimeChange /\ UNCHANGED <<solverVars, derivatives, compilerVars, plotVars>>
    \/ handleSolverConfigChange /\ UNCHANGED <<solverVars, derivatives, compilerVars, plotVars>>

AppSpec == Init /\ [][AppNext]_vars

\* -------------------------------------------------------------- nullclines
\* largest resolution drawn as an input
MaxResolution == 3

\* the numbers of the nullcline computation: fractions n/d in lowest terms
\* with d > 0; d = 0 stands for the values that are not finite (n = 0 for
\* NaN, n = 1 and n = -1 for the infinities)
RECURSIVE Gcd(_, _)
Gcd(a, b) == IF b = 0 THEN a ELSE Gcd(b, a % b)
Magnitude(n) == IF n < 0 THEN 0 - n ELSE n
Fraction(n, d) ==
    LET g == Gcd(Magnitude(n), Magnitude(d))
        s == IF d < 0 THEN 0 - 1 ELSE 1
    IN  [n |-> (s * n) \div g, d |-> (s * d) \div g]
Whole(k) == [n |-> k, d |-> 1]
NotANumber == [n |-> 0, d |-> 0]
PlusInfinity == [n |-> 1, d |-> 0]
\* what an evaluation that throws yields in place of a number
Thrown == [thrown |-> "TypeError"]
isFinite(v) == v.d # 0
QAdd(a, b) == Fraction(a.n * b.d + b.n * a.d, a.d * b.d)
QSub(a, b) == Fraction(a.n * b.d - b.n * a.d, a.d * b.d)
QMul(a, b) == Fraction(a.n * b.n, a.d * b.d)
QDiv(a, b) == Fraction(a.n * b.d, a.d * b.n)
QNegative(a) == a.n < 0

\* the systems handed to calculateNullclines, each with the number of its
\* compiled derivatives:
\*   rotation   dx/dt = y, dy/dt = -x
\*   decay      dx/dt = -x
\*   lorenz     dx/dt = sigma*(y - x), dy/dt = x*(rho - z) - y,
\*              dz/dt = x*y - beta*z, with sigma = 10
\*   pole       dx/dt = 1/x, dy/dt = y
\*   call       dx/dt = y, dy/dt = a(x), where a is a parameter
\*   vanderpol  dx/dt = y, dy/dt = mu*(1 - x*x)*y - x, with mu = 1
NullclineSystems == {"rotation", "decay", "lorenz", "pole", "call", "vanderpol"}
DerivativeCount(system) ==
    CASE system = "decay" -> 1
      [] system = "lorenz" -> 3
      [] OTHER -> 2

\* equation.derivatives[k](t, [x0, x1], params): the number returned, or
\* Thrown. The state has the two entries x0 (for x) and x1 (for y), so z is undefined in lorenz and
\* arithmetic with it gives NaN; 1/0 is Infinity; calling the number
\* params.a throws a TypeError
Derivative(system, k, x0, x1) ==
    CASE system = "rotation" -> IF k = 0 THEN x1 ELSE QSub(Whole(0), x0)
      [] system = "decay" -> QSub(Whole(0), x0)
      [] system = "lorenz" ->
            IF k = 0 THEN QMul(Whole(10), QSub(x1, x0)) ELSE NotANumber
      [] system = "pole" ->
            IF k = 0
            THEN IF x0.n = 0 THEN PlusInfinity ELSE QDiv(Whole(1), x0)
            ELSE x1
      [] system = "call" -> IF k = 0 THEN x1 ELSE Thrown
      [] system = "vanderpol" ->
            IF k = 0 THEN x1
            ELSE QSub(QMul(QSub(Whole(1), QMul(x0, x0)), x1), x0)

\* the rectangles handed to calculateNullclines
RangeInputs == {<<0 - 2, 2>>, <<0 - 3, 3>>, <<0 - 1, 3>>}

\* "const xStep = (xRange[1] - xRange[0]) / resolution" and the same for y
xStep(c) == QDiv(Whole(c.xRange[2] - c.xRange[1]), Whole(c.resolution))
yStep(c) == QDiv(Whole(c.yRange[2] - c.yRange[1]), Whole(c.resolution))

\* "xRange[0] + i * xStep" and "yRange[0] + j * yStep"
NodeX(c, ni) == QAdd(Whole(c.xRange[1]), QMul(Whole(ni), xStep(c)))
NodeY(c, nj) == QAdd(Whole(c.yRange[1]), QMul(Whole(nj), yStep(c)))

\* interpolateZero(x1, f1, x2, f2)
interpolateZero(x1, f1, x2, f2) ==
    IF f1 = f2 THEN QDiv(QAdd(x1, x2), Whole(2))
    ELSE QSub(x1, QDiv(QMul(f1, QSub(x2, x1)), QSub(f2, f1)))

\* calculateNullclines(equation, xRange, yRange, resolution) up to its first
\* loop: the early return, or the declarations
calculateNullclines ==
    /\ nullclines.pc = "idle"
    /\ \E system \in NullclineSystems, xr \in RangeInputs, yr \in RangeInputs,
          resolution \in 1 .. MaxResolution :
        LET called == [NoNullclines EXCEPT !.equation = system, !.xRange = xr,
                                           !.yRange = yr, !.resolution = resolution]
        IN  nullclines' =
                IF DerivativeCount(system) < 2
                THEN [called EXCEPT !.pc = "returned"]
                ELSE [called EXCEPT !.pc = "sampling"]

\* the values the try block or its catch stores for the node (ni, nj)
Sampled(c, ni, nj) ==
    LET dx == Derivative(c.equation, 0, NodeX(c, ni), NodeY(c, nj))
        dy == Derivative(c.equation, 1, NodeX(c, ni), NodeY(c, nj))
    IN  IF dx = Thrown \/ dy = Thrown
        THEN [dx |-> NotANumber, dy |-> NotANumber]
        ELSE [dx |-> dx, dy |-> dy]

\* one iteration of the inner loop that fills dxGrid and dyGrid
SampleNode ==
    /\ nullclines.pc = "sampling"
    /\ LET c == nullclines
           node == <<c.i, c.j>>
           last == c.i = c.resolution /\ c.j = c.resolution
       IN  nullclines' =
               [c EXCEPT !.dxGrid = (node :> Sampled(c, c.i, c.j).dx) @@ @,
                         !.dyGrid = (node :> Sampled(c, c.i, c.j).dy) @@ @,
                         !.j = IF last \/ c.j = c.resolution THEN 0 ELSE c.j + 1,
                         !.i = IF last THEN 0
                               ELSE IF c.j = c.resolution THEN c.i + 1 ELSE c.i,
                         !.pc = IF last THEN "marching" ELSE "sampling"]

\* a sequence that is empty unless the condition holds
When(condition, s) == IF condition THEN s ELSE <<>>

\* "a * b < 0"
SignChange(a, b) == QNegative(QMul(a, b))

\* a cell that would test its top edge in every row
CellEdgesTestingEveryTop(c, grid) ==
    LET cx == NodeX(c, c.i)
        cy == NodeY(c, c.j)
        n00 == <<c.i, c.j>>
        n10 == <<c.i + 1, c.j>>
        n01 == <<c.i, c.j + 1>>
        n11 == <<c.i + 1, c.j + 1>>
    IN  IF isFinite(grid[n00]) /\ isFinite(grid[n10])
           /\ isFinite(grid[n01]) /\ isFinite(grid[n11])
        THEN <<[edge |-> <<n00, n10>>, a |-> grid[n00], b |-> grid[n10],
                point |-> [x |-> interpolateZero(cx, grid[n00], QAdd(cx, xStep(c)),
                                                 grid[n10]),
                           y |-> cy]],
               [edge |-> <<n00, n01>>, a |-> grid[n00], b |-> grid[n01],
                point |-> [x |-> cx,
                           y |-> interpolateZero(cy, grid[n00], QAdd(cy, yStep(c)),
                                                 grid[n01])]],
               [edge |-> <<n01, n11>>, a |-> grid[n01], b |-> grid[n11],
                point |-> [x |-> interpolateZero(cx, grid[n01], QAdd(cx, xStep(c)),
                                                 grid[n11]),
                           y |-> QAdd(cy, yStep(c))]]>>
             \o When(c.i = c.resolution - 1,
                <<[edge |-> <<n10, n11>>, a |-> grid[n10], b |-> grid[n11],
                   point |-> [x |-> QAdd(cx, xStep(c)),
                              y |-> interpolateZero(cy, grid[n10], QAdd(cy, yStep(c)),
                                                    grid[n11])]]>>)
        ELSE <<>>

\* the edges one cell tests for a curve, in the order of the code: the
\* bottom and the left edge, the top edge in the last row, the right edge in
\* the last column; none when a corner value is not finite. With each edge
\* go the two end values the test multiplies and the point pushed when the
\* product is negative
CellEdges(c, grid) ==
    LET cx == NodeX(c, c.i)
        cy == NodeY(c, c.j)
        n00 == <<c.i, c.j>>
        n10 == <<c.i + 1, c.j>>
        n01 == <<c.i, c.j + 1>>
        n11 == <<c.i + 1, c.j + 1>>
    IN  IF isFinite(grid[n00]) /\ isFinite(grid[n10])
           /\ isFinite(grid[n01]) /\ isFinite(grid[n11])
        THEN <<[edge |-> <<n00, n10>>, a |-> grid[n00], b |-> grid[n10],
                point |-> [x |-> interpolateZero(cx, grid[n00], QAdd(cx, xStep(c)),
                                                 grid[n10]),
                           y |-> cy]],
               [edge |-> <<n00, n01>>, a |-> grid[n00], b |-> grid[n01],
                point |-> [x |-> cx,
                           y |-> interpolateZero(cy, grid[n00], QAdd(cy, yStep(c)),
                                                 grid[n01])]]>>
             \o When(c.j = c.resolution - 1,
                <<[edge |-> <<n01, n11>>, a |-> grid[n01], b |-> grid[n11],
                   point |-> [x |-> interpolateZero(cx, grid[n01], QAdd(cx, xStep(c)),
                                                    grid[n11]),
                              y |-> QAdd(cy, yStep(c))]]>>)
             \o When(c.i = c.resolution - 1,
                <<[edge |-> <<n10, n11>>, a |-> grid[n10], b |-> grid[n11],
                   point |-> [x |-> QAdd(cx, xStep(c)),
                              y |-> interpolateZero(cy, grid[n10], QAdd(cy, yStep(c)),
                                                    grid[n11])]]>>)
        ELSE <<>>

\* the points one cell appends to a curve: those of the tested edges whose
\* end values have a negative product
CellCrossings(c, grid) ==
    LET crossed == SelectSeq(CellEdges(c, grid), LAMBDA e : SignChange(e.a, e.b))
    IN  [k \in DOMAIN crossed |-> crossed[k].point]

\* the edges one cell tests, each with the curve it is tested for
CellTests(c, grid, curve) ==
    LET edges == CellEdges(c, grid)
    IN  [k \in DOMAIN edges |-> [curve |-> curve, edge |-> edges[k].edge]]

\* one iteration of the inner loop of the marching-squares pass, and the
\* return once the loops have ended
MarchCell ==
    /\ nullclines.pc = "marching"
    /\ LET c == nullclines
           last == c.i = c.resolution - 1 /\ c.j = c.resolution - 1
       IN  nullclines' =
               [c EXCEPT !.xNullcline = @ \o CellCrossings(c, c.dxGrid),
                         !.yNullcline = @ \o CellCrossings(c, c.dyGrid),
                         !.tested = @ \o CellTests(c, c.dxGrid, "x")
                                      \o CellTests(c, c.dyGrid, "y"),
                         !.j = IF last \/ c.j = c.resolution - 1 THEN 0 ELSE c.j + 1,
                         !.i = IF last THEN 0
                               ELSE IF c.j = c.resolution - 1 THEN c.i + 1 ELSE c.i,
                         !.pc = IF last THEN "returned" ELSE "marching"]

NullclineNext ==
    \/ calculateNullclines /\ UNCHANGED <<solverVars, derivatives, compilerVars, appVars>>
    \/ SampleNode /\ UNCHANGED <<solverVars, derivatives, compilerVars, appVars>>
    \/ MarchCell /\ UNCHANGED <<solverVars, derivatives, compilerVars, appVars>>

NullclineSpec == Init /\ [][NullclineNext]_vars

\* ------------------------------------------------------------------ claims
Last(s) == s[Len(s)]

\* the result reports a divergence
ReportsDivergence == result.message \in {MsgDiverged, MsgDivergedStartup}

\* C1: for each of the four solvers, with dt > 0 and minStep > 0, the returned
\* time array starts with the supplied initial time and is strictly
\* increasing, on every return path.
C1_TimesStartAtT0AndIncrease ==
    pc = "returned" =>
        /\ result.t[1] = t0
        /\ \A k \in 1 .. Len(result.t) - 1 : result.t[k] < result.t[k + 1]

\* C2: for each of the four solvers, a run that computes a non-finite state
\* returns success = false with a non-empty message, and the returned
\* trajectory holds the points accepted before the divergent one and not the
\* divergent one: every returned state vector is finite.
C2_DivergenceKeepsOnlyFinitePoints ==
    pc = "returned" /\ ReportsDivergence =>
        /\ ~result.success
        /\ result.message.text # ""
        /\ \A k \in DOMAIN result.y : result.y[k] = "fin"

\* C3: every call of integrate terminates: whatever the derivative
\* evaluations produce, the driving loop runs a bounded number of iterations;
\* in rkf45 no sequence of attempts goes on forever without accepting a step
\* or returning.  The derivative functions are pure, so an iteration that
\* neither returns nor accepts a step and leaves the step size as it was is
\* repeated identically for ever: termination requires every iteration that
\* stays in the loop to accept a step or to change the step size.
C3_EveryIterationMakesProgress ==
    [][(pc \in NumericalMethod /\ pc' = pc) => (steps' > steps \/ dt' # dt)]_vars

\* C4: for each of the four solvers, an exception thrown by a derivative
\* evaluation, the first one at the initial point included, never leaves the
\* solver: the solver returns success = false with a message and the recorded
\* prefix, which holds at least the initial point.
C4_DerivativeExceptionsAreCaught ==
    /\ ~(pc = "threw" /\ thrown = "derivative")
    /\ pc = "returned" /\ result.message = MsgError =>
          ~result.success /\ Len(result.t) >= 1

\* C5: for each of the four solvers, a run stopped by the step cap while the
\* time is still below tEnd returns success = true with a message that flags
\* the cap, and a run that ends with fewer than maxSteps steps returns a
\* message that does not flag it.
C5_StepCapIsFlagged ==
    pc = "returned" /\ result.success =>
        /\ result.steps >= cfg.maxSteps /\ FLt(Last(result.t), cfg.tEnd) =>
              result.message = MsgMaxSteps
        /\ result.steps < cfg.maxSteps => result.message # MsgMaxSteps

\* C6: integrate raises an error, running no solver, when config.method is
\* not one of the four supported values, and for a supported value it runs
\* the solver of that name and returns its result.
C6_UnsupportedMethodRaises ==
    pc # "idle" =>
        IF cfg.method \in NumericalMethod
        THEN pc \in {cfg.method, "returned", "threw"}
        ELSE pc = "threw" /\ tValues = <<>>

\* C7: in rkf45 the step size of every accepted step lies in
\* [minStep, maxStep], whatever the initial dt and tEnd.
C7_AcceptedStepWithinRange ==
    accepted # NoStep =>
        cfg.minStep <= accepted.dt /\ accepted.dt <= cfg.maxStep

C9_Rkf45LandsOnTEnd ==
    cfg.method = "rkf45" =>
        /\ \A k \in 2 .. Len(tValues) : tValues[k] <= cfg.tEnd
        /\ pc = "returned" /\ result.success /\ result.steps < cfg.maxSteps
              /\ t0 < cfg.tEnd => Last(result.t) = cfg.tEnd

\* C10: in adamsBashforth, for every order, dt > 0 and tEnd > t0 (also when
\* the run ends inside the startup phase), no recorded time exceeds tEnd and
\* a successful run not stopped by the step cap has its last recorded time
\* equal to tEnd.
C10_AdamsLandsOnTEnd ==
    cfg.method = "adams-bashforth" /\ t0 < cfg.tEnd =>
        /\ \A k \in DOMAIN tValues : tValues[k] <= cfg.tEnd
        /\ pc = "returned" /\ result.success /\ result.steps < cfg.maxSteps =>
              Last(result.t) = cfg.tEnd


\* C11: in adamsBashforth with order 2, 3 or 4 (default 4), when tEnd and
\* maxSteps allow order - 1 steps and nothing diverges, exactly order - 1
\* steps are taken with the RK4 stage formula before the first multistep
\* step; each startup step produces the state one rk4 step produces from the
\* same state with the same dt; and on entering the main phase the history
\* holds exactly order entries, the derivative at the initial point followed
\* by the derivative at each startup point, in time order.
C11_StartupIsRk4AndFillsHistory ==
    [][/\ (pc = "startup" /\ steps' = steps + 1) =>
             y' = Rk4NewState(derivatives, t, y, cfg.dt)
       /\ (pc = "startup" /\ pc' = "main" /\ (Running \/ steps >= Order - 1)) =>
             /\ steps = Order - 1
             /\ Len(fHistory) = Order
             /\ \A j \in 1 .. Order :
                   fHistory[j] = Deriv(derivatives, tValues[j], yValues[j])
             /\ \A j \in 1 .. Order - 1 : tValues[j] < tValues[j + 1]]_vars

\* C11 witness: the main phase is entered after three startup steps of the
\* default order on a state-dependent derivative, with a step still to take
C11_MainPhaseEnteredAfterThreeSteps ==
    /\ pc = "main"
    /\ Running
    /\ cfg.order = 0
    /\ steps = 3
    /\ derivatives = "state"
    /\ y > 1
\* the nesting depth after the first n characters of s
Depth(s, n) ==
    Cardinality({p \in 1 .. n : s[p] = "("}) - Cardinality({p \in 1 .. n : s[p] = ")"})

\* C18: validateEquation rejects with the unbalanced-parentheses error
\* exactly the non-empty inputs whose depth counter (+1 on "(", -1 on ")")
\* is negative after some prefix or is not zero at the end; an input whose
\* counter never goes negative and ends at zero is never rejected for
\* parentheses.
C18_RejectsExactlyUnbalanced ==
    call.fn = "validateEquation" =>
        LET s == call.equation
        IN  (ret.value.error = ErrParentheses) <=>
                /\ Trim(s) # <<>>
                /\ \/ \E n \in 1 .. Len(s) : Depth(s, n) < 0
                   \/ Depth(s, Len(s)) # 0

\* C18 witness: a text that closes before it opens, with as many "(" as ")",
\* is rejected for its parentheses
C18_ClosedBeforeOpenedRejected ==
    /\ call.fn = "validateEquation"
    /\ call.equation = <<")", "x", "(">>
    /\ ret.value.error = ErrParentheses

\* the elements of a sequence are pairwise different
Distinct(seq) == \A j, k \in DOMAIN seq : j # k => seq[j] # seq[k]

\* the variable an equation declares: its left-hand side is d<name>/dt;
\* <<>> when the left-hand side is anything else
DeclaredVariable(equation) ==
    LET signs == EqualSigns(equation)
        lhs   == IF signs = {} THEN equation
                 ELSE Slice(equation, 1, (CHOOSE p \in signs : \A q \in signs : p <= q) - 1)
    IN  DerivativeNameAt(Trim(lhs), 1)

DeclaredVariables(equations) == [k \in DOMAIN equations |-> DeclaredVariable(equations[k])]

\* C12: both system-level entry points fail with an error and return no
\* derivative array whenever the number of expressions differs from the
\* number of variables: parseSystem when the variables derived from the
\* left-hand sides do not number the same as the equations, parseEquations
\* when the expressions array and the variables array differ in length.
C12_CountMismatchFails ==
    /\ (call.fn = "parseSystem"
          /\ Len(extractVariables(call.equations)) # Len(call.equations))
            => ret.kind = "throw"
    /\ (call.fn = "parseEquations" /\ Len(call.equations) # Len(call.variables))
            => ret.kind = "throw"

\* C13: the variable list parseSystem derives from a batch of equations
\* dX/dt = ... is the sequence of the left-hand-side identifiers in
\* encounter order and has no duplicate; a batch in which two equations
\* declare the same variable, or in which some left-hand side does not yield
\* exactly one variable, is rejected with an error.
C13_VariablesAreTheDistinctLeftHandSides ==
    call.fn = "parseSystem" =>
        LET declared == DeclaredVariables(call.equations)
        IN  /\ ret.kind = "system" =>
                  /\ ret.variables = declared
                  /\ Distinct(ret.variables)
            /\ (~Distinct(declared) \/ \E k \in DOMAIN declared : declared[k] = <<>>)
                  => ret.kind = "throw"

\* the first index at which a sequence holds a value
IndexOf(seq, value) == CHOOSE k \in DOMAIN seq : seq[k] = value /\ \A j \in 1 .. k - 1 : seq[j] # value

\* variable binding token by token, from position p on: a word equal to
\* variables[i] becomes y[i], every other word and character stays
RECURSIVE BindTokensFrom(_, _, _)
BindTokensFrom(s, p, variables) ==
    IF p > Len(s) THEN <<>>
    ELSE IF IsWordChar(s[p])
         THEN LET e == WordEnd(s, p)
                  word == Slice(s, p, e - 1)
              IN  (IF word \in Range(variables)
                   THEN StateAccess(IndexOf(variables, word) - 1)
                   ELSE word) \o BindTokensFrom(s, e, variables)
         ELSE <<s[p]>> \o BindTokensFrom(s, p + 1, variables)

\* C15: in parseEquation, variable binding replaces every identifier token
\* equal to variables[i] by an access to slot i of the state vector and
\* changes no other token: an identifier that only contains a variable name
\* is left untouched and a variable bound earlier is never re-bound by a
\* later variable.  So sigma*(y - x) with variables x, y, z compiles to
\* params.sigma*(y[1] - y[0]), which is 10 at state [1,2,3] with sigma = 10.
C15_BindsExactlyTheVariableTokens ==
    (call.fn = "parseEquation" /\ ret.kind = "function") =>
        /\ ret.body = BindParametersAndMath(
                          BindTokensFrom(convertPowers(Trim(call.equation)), 1,
                                         call.variables),
                          call.variables)
        /\ (call.equation = <<"s", "i", "g", "m", "a", "*", "(", "y", " ", "-", " ", "x", ")">>
              /\ call.variables = <<<<"x">>, <<"y">>, <<"z">>>>)
                => ret.body = <<"p", "a", "r", "a", "m", "s", ".", "s", "i", "g", "m", "a", "*", "(", "y", "[", "1", "]", " ", "-", " ", "y", "[", "0", "]", ")">>

\* the names that follow "Math." in a text, from position p on
RECURSIVE MathMembersFrom(_, _)
MathMembersFrom(s, p) ==
    IF p > Len(s) THEN <<>>
    ELSE IF OccursAt(s, p, <<"M", "a", "t", "h", ".">>)
         THEN <<Slice(s, p + 5, WordEnd(s, p + 5) - 1)>>
                  \o MathMembersFrom(s, WordEnd(s, p + 5))
         ELSE MathMembersFrom(s, p + 1)

\* C16: in the function parseEquation produces, every identifier of the
\* math-function whitelist and every math-constant identifier is bound to an
\* existing implementation, the one the whitelist table gives it (ln is the
\* natural logarithm, pi and PI are pi, e and E are Euler's number); none is
\* undefined or raises when evaluated.
C16_WhitelistBoundToTableImplementation ==
    (call.fn = "parseEquation" /\ ret.kind = "function") =>
        /\ \A k \in DOMAIN MATH_FUNCTION_KEYS :
              call.equation = MATH_FUNCTION_KEYS[k] \o <<"(", "x", ")">> =>
                  /\ MathMembersFrom(ret.body, 1) = <<MATH_FUNCTION_VALUES[k]>>
                  /\ MathMembersFrom(ret.body, 1)[1] \in MathObject
        /\ \A k \in DOMAIN MATH_CONSTANT_KEYS :
              call.equation = MATH_CONSTANT_KEYS[k] \o <<"*", "x">> =>
                  /\ MathMembersFrom(ret.body, 1) = <<MATH_CONSTANT_VALUES[k]>>
                  /\ MathMembersFrom(ret.body, 1)[1] \in MathObject

\* a text without the parentheses around it, if it has them
Unparenthesized(s) ==
    IF Len(s) >= 2 /\ s[1] = "(" /\ s[Len(s)] = ")" THEN Slice(s, 2, Len(s) - 1) ELSE s

\* C17: parseEquation rewrites every power expression whose base is an
\* identifier, a numeral or a parenthesized sub-expression and whose exponent
\* is an identifier, a signed numeral or a parenthesized sub-expression into
\* an explicit binary power call with that base and that exponent, until no
\* "^" remains in the generated function body: "^" is never left to be
\* evaluated as another operator and the base of a parenthesized power is
\* never dropped.
C17_EveryPowerBecomesAPowerCall ==
    (call.fn = "parseEquation" /\ ret.kind = "function") =>
        \A pre \in PowerPrefixes, base \in PowerBases, exp \in PowerExponents :
            call.equation = pre \o base \o <<"^">> \o exp =>
                LET b == FunctionBody(base, call.variables)
                    e == FunctionBody(exp, call.variables)
                IN  /\ ~Includes(ret.body, <<"^">>)
                    /\ \E bb \in {b, Unparenthesized(b)}, ee \in {e, Unparenthesized(e)} :
                          ret.body = FunctionBody(pre, call.variables) \o PowerCall(bb, ee)
\* C14: every equation definition that reaches the application state, by a
\* catalog selection, by the custom editor's apply or by a parameter edit,
\* has as many compiled derivative functions as variables and as many
\* variables as expression strings, after any sequence of these operations.
C14_DefinitionCountsAgree ==
    systemState.equation.kind = "equation" =>
        /\ Len(systemState.equation.derivatives) = Len(systemState.equation.variables)
        /\ Len(systemState.equation.variables) = Len(systemState.equation.equations)

\* C14 witness: a definition of two variables applied from the editor whose
\* parameter a has since been edited to 2
C14_AppliedThenParameterEdited ==
    /\ systemState.equation.kind = "equation"
    /\ Len(systemState.equation.variables) = 2
    /\ systemState.equation.parameters = <<[name |-> <<"a">>, value |-> 2]>>

\* a step of the catalog selection or of the editor's apply in which the
\* compile failed
FailedCompileStep ==
    /\ handleSelectSystem \/ validateAndApply
    /\ attempt' \in {"throw", "invalid"}

IntegrateInvoked == handleRun /\ systemState.equation.kind = "equation"

\* C20: after a catalog selection or an apply that raised a compile error,
\* pressing Run does not start an integration: handleRun invokes integrate
\* only if the most recent compile attempt succeeded.
C20_RunOnlyAfterSuccessfulCompile ==
    [][IntegrateInvoked => attempt # "throw"]_vars

\* C24: in rkf45 a rejected attempt leaves the current time, the current
\* state, the recorded times and states and the accepted-step count as they
\* were (only the step size and the rejected-step counter change), and the
\* success flag of the result depends on the way the loop ended alone: it is
\* true exactly when the loop ran to its end, whatever the rejected count
RejectedAttempt == pc = "rkf45" /\ rejectedSteps' # rejectedSteps
Rkf45Returns == pc = "rkf45" /\ pc' = "returned"
C24_RejectedAttemptOnlyAdjustsStep ==
    [][/\ RejectedAttempt =>
            /\ rejectedSteps' = rejectedSteps + 1
            /\ UNCHANGED <<t, y, tValues, yValues, steps, pc, result>>
       /\ Rkf45Returns => (result'.success <=> ~Running)]_vars
C24_SucceededAfterRejections ==
    /\ pc = "returned"
    /\ cfg.method = "rkf45"
    /\ result.success
    /\ rejectedSteps >= 2
    /\ result.steps >= 1


\* C25: in adamsBashforth with order k every step of the main loop starts
\* with a history of exactly k derivative evaluations, reads the k most recent
\* ones (coefficient j on the j-th most recent) at indices inside the
\* history, and leaves a history of exactly k entries again: the former ones
\* without the oldest, followed by the new evaluation. When the startup loop
\* was cut short by tEnd or by the step cap the main loop takes no step
AdamsMainPhase ==
    pc = "adams-bashforth" /\ ~(i < Order - 1 /\ Running) /\ Running
C25_MainPhaseKeepsWindowOfOrder ==
    [][AdamsMainPhase =>
        /\ i = Order - 1
        /\ Len(fHistory) = Order
        /\ \A j \in 0 .. Order - 1 :
              /\ Len(fHistory) - j \in DOMAIN fHistory
              /\ HistoryRead(j) = fHistory[Order - j]
        /\ Len(fHistory') = Order
        /\ \/ fHistory' = fHistory /\ pc' = "returned" /\ result'.message = MsgError
           \/ /\ SubSeq(fHistory', 1, Order - 1) = SubSeq(fHistory, 2, Order)
              /\ fHistory'[Order] \in EvalOutcomes \ {"throw"}]_vars
C25_WindowSlidOverDifferentValues ==
    /\ pc = "adams-bashforth"
    /\ steps >= Order + 1
    /\ Len(fHistory) = Order
    /\ fHistory[1] # fHistory[Order]


C22_EmptyUnlessTwoVariables ==
    nullclines.pc # "idle" /\ DerivativeCount(nullclines.equation) # 2 =>
        /\ nullclines.pc = "returned"
        /\ nullclines.dxGrid = << >>
        /\ nullclines.xNullcline = <<>>
        /\ nullclines.yNullcline = <<>>


\* C23: for dx/dt = y, dy/dt = -x over a rectangle symmetric about the
\* origin whose grid has nodes on the lines y = 0 and x = 0,
\* calculateNullclines returns a non-empty first curve with every point less
\* than a grid step from y = 0 and a non-empty second curve with every point
\* less than a grid step from x = 0
Symmetric(range) == range[1] = 0 - range[2]
ZeroIsNode(c) ==
    /\ \E ni \in 0 .. c.resolution : NodeX(c, ni) = Whole(0)
    /\ \E nj \in 0 .. c.resolution : NodeY(c, nj) = Whole(0)
Near(v, step) == Magnitude(v.n) * step.d < step.n * v.d
C23_RotationCurvesOnTheAxes ==
    LET c == nullclines IN
    /\ c.pc = "returned"
    /\ c.equation = "rotation"
    /\ Symmetric(c.xRange) /\ Symmetric(c.yRange)
    /\ ZeroIsNode(c)
    => /\ c.xNullcline # <<>>
       /\ \A k \in DOMAIN c.xNullcline : Near(c.xNullcline[k].y, yStep(c))
       /\ c.yNullcline # <<>>
       /\ \A k \in DOMAIN c.yNullcline : Near(c.yNullcline[k].x, xStep(c))


\* C26: for a two-variable system, a node at which either derivative throws
\* or returns a value that is not finite is invalid in both grids, and a cell
\* with such a node among its four corners appends no point to either curve
GridNodes(c) == (0 .. c.resolution) \X (0 .. c.resolution)
GridCells(c) == (0 .. c.resolution - 1) \X (0 .. c.resolution - 1)
FailsAt(c, node) ==
    \E k \in {0, 1} :
        LET v == Derivative(c.equation, k, NodeX(c, node[1]), NodeY(c, node[2]))
        IN  v = Thrown \/ ~isFinite(v)
Corners(cell) ==
    {cell, <<cell[1] + 1, cell[2]>>, <<cell[1], cell[2] + 1>>,
     <<cell[1] + 1, cell[2] + 1>>}
C26_FailedNodeInvalidForBothCurves ==
    LET c == nullclines IN
    c.pc \in {"marching", "returned"} /\ DerivativeCount(c.equation) = 2 =>
        /\ \A node \in GridNodes(c) :
              FailsAt(c, node) =>
                  ~isFinite(c.dxGrid[node]) /\ ~isFinite(c.dyGrid[node])
        /\ \A cell \in GridCells(c) :
              (\E node \in Corners(cell) : FailsAt(c, node)) =>
                  LET at == [c EXCEPT !.i = cell[1], !.j = cell[2]]
                  IN  /\ CellCrossings(at, c.dxGrid) = <<>>
                      /\ CellCrossings(at, c.dyGrid) = <<>>


\* C27: in the marching-squares pass, for every resolution from 1 on,
\* every edge of the grid (interior, or on the perimeter, top row and right
\* column included) is tested for a sign change by one cell per curve and
\* by no other: by the cell above or to the right of it, or by the last cell
\* of the row or column for the top and right perimeter. No edge is tested
\* twice; an edge is left untested only when the cell that tests it has a
\* corner value that is not finite
GridEdges(c) ==
    {<<<<a, b>>, <<a + 1, b>>>> : a \in 0 .. c.resolution - 1, b \in 0 .. c.resolution}
    \cup {<<<<a, b>>, <<a, b + 1>>>> : a \in 0 .. c.resolution, b \in 0 .. c.resolution - 1}
TestingCell(c, edge) ==
    LET low == edge[1]
        horizontal == edge[2][2] = low[2]
    IN  IF horizontal
        THEN <<low[1], IF low[2] = c.resolution THEN low[2] - 1 ELSE low[2]>>
        ELSE <<IF low[1] = c.resolution THEN low[1] - 1 ELSE low[1], low[2]>>
TimesTested(c, curve, edge) ==
    Cardinality({k \in DOMAIN c.tested :
                    c.tested[k] = [curve |-> curve, edge |-> edge]})
CurveGrid(c, curve) == IF curve = "x" THEN c.dxGrid ELSE c.dyGrid
Reserved == {<<"t">>, <<"y">>, <<"p", "a", "r", "a", "m", "s">>, <<"M", "a", "t", "h">>, <<"p", "o", "w">>}
C30_CatalogParametersAreRead ==
    call.fn = "usedParams" =>
        LET system == EXAMPLE_SYSTEMS[call.system] IN
        \A k \in DOMAIN system.parameters :
            LET name == system.parameters[k] IN
            /\ name \notin Range(system.variables)
            /\ name \notin Range(MATH_FUNCTION_KEYS)
            /\ name \notin Range(MATH_CONSTANT_KEYS)
            /\ name \notin Reserved
            /\ \A e \in DOMAIN system.equations :
                  name \in Range(WordsFrom(extractRightHandSide(system.equations[e]).text, 1))
                      => name \in Range(ret.names[e])


\* C21: when the result of a run has success = false and holds recorded
\* points, the phase-space view and the time-series view still build their
\* trajectory traces from those points and show the diagnostic message with
\* them: no failed result with points leads to an empty set of traces
FailedRunWithPoints ==
    /\ systemState.equation.kind = "equation"
    /\ Len(systemState.equation.variables) >= 2
    /\ systemState.result.kind = "result"
    /\ ~systemState.result.success
    /\ Recorded(systemState.result) >= 1
C21_FailedRunStillPlotted ==
    FailedRunWithPoints =>
        LET run == systemState.result
            equation == systemState.equation
            phase == PlotView(run, equation, PhaseSpaceTraces(run, equation))
            series == PlotView(run, equation, TimeSeriesTraces(run, equation))
        IN  /\ PhaseSpaceTraces(run, equation) # <<>>
            /\ TimeSeriesTraces(run, equation) # <<>>
            /\ phase.traces # <<>> /\ phase.message # "none"
            /\ series.traces # <<>> /\ series.message # "none"

\* C29: a switch to a new equation definition leaves one initial value for
\* each variable of the new definition; a value at an index that existed
\* before is the one the user had set, 0 included, and only a new index
\* gets the default 1; the initial time and the solver configuration stay
\* as they were
EquationSwitched == systemState'.equation # systemState.equation
C29_SwitchKeepsInitialValues ==
    [][EquationSwitched =>
          LET old == systemState.initialValues
              new == systemState'.initialValues
          IN  /\ Len(new) = Len(systemState'.equation.variables)
              /\ \A k \in DOMAIN new :
                    new[k] = IF k \in DOMAIN old THEN old[k] ELSE 1
              /\ systemState'.time = systemState.time
              /\ systemState'.tEnd = systemState.tEnd]_vars

====
